---- MODULE Spec2Model ----
(***************************************************************************)
(* SENA WhatsApp backend, revision v11h (src/server.js lines 637-957), the *)
(* latest of the revisions the file holds.                                 *)
(*                                                                         *)
(* The store is the Supabase table `messages`, modelled as the sequence of *)
(* its rows in insertion order.  Every HTTP handler is one action that     *)
(* runs the handler from the request to the computed response; what the    *)
(* external collaborators answer (the `instances` row, Gupshup's status or *)
(* throw, a store write that is rejected) is an input of the action.  The  *)
(* request in progress and its response are kept in `last` until the       *)
(* response leaves (Respond); requests are served one at a time.           *)
(*                                                                         *)
(* Texts are sequences of chunks (a chunk is a run of characters); phone   *)
(* numbers are sequences of characters.  A JS null / undefined / ''        *)
(* (all falsy) text is the empty sequence.  The sender 'Robô' is written   *)
(* "Robo".                                                                 *)
(*                                                                         *)
(* Spec serves requests one at a time at a store that holds the column     *)
(* status_conversa and answers every read; created_at follows the order of *)
(* the inserts.  The other specifications vary one of these conditions:    *)
(* SpecConc runs two webhook deliveries concurrently, each store round trip *)
(* a step, with the server's clock; SpecClock serves requests one at a     *)
(* time with the clock and tracks updated_at; SpecFaults lets the store    *)
(* fail reads and reject writes, with the status_conversa fallback and the *)
(* flag HAS_STATUS_CONVERSA; SpecMarkers models the inserts of the earlier *)
(* revisions src/unnamed/part_000 and POST /api/conversas (src/server.js   *)
(* lines 584-606), which v11h no longer has; SpecNames adds display names, *)
(* the name edit and the three reads with their answers to the routes that *)
(* write the table; SpecText applies the hand-off phrase test to texts     *)
(* drawn from a small alphabet.                                            *)
(*                                                                         *)
(* Left out: the token routes and the instance list.                       *)
(***************************************************************************)
EXTENDS Integers, Sequences, FiniteSets, TLC

VARIABLES messages, last, now, conns, HAS_STATUS_CONVERSA

vars == <<messages, last, now, conns, HAS_STATUS_CONVERSA>>

(* ------------------------------ bounds --------------------------------- *)
MaxRows == 4

(* ------------------------------ Status --------------------------------- *)
Status ==
  [ROBO |-> "EM_ATENDIMENTO_ROBO", PENDENTE |-> "PENDENTE",
   HUMANO |-> "EM_ATENDIMENTO_HUMANO", FINALIZADO |-> "FINALIZADO"]

StatusValues == {Status.ROBO, Status.PENDENTE, Status.HUMANO, Status.FINALIZADO}

NoStatus == "null"
NoField == "undefined"
NoText == <<>>

(* ------------------------------- Utils --------------------------------- *)
Digits == {"1", "2"}

normalizePhone(p) == SelectSeq(p, LAMBDA ch : ch \in Digits)

trim(s) ==
  LET IsSp(i) == s[i] = " "
      NonSp == {i \in 1..Len(s) : ~IsSp(i)}
      Lo == CHOOSE i \in NonSp : \A j \in NonSp : i <= j
      Hi == CHOOSE i \in NonSp : \A j \in NonSp : j <= i
  IN IF NonSp = {} THEN <<>> ELSE SubSeq(s, Lo, Hi)

\* faulty variant: upper-case letters are left as they are
toLowerCaseMissing(ch) == ch

toLowerCase(ch) ==
  CASE ch = "VOU TE " -> "vou te "
    [] ch = "Transferir para um atendente HUMANO" -> "transferir para um atendente humano"
    [] ch = "Vou te deixar com alguém da equipe" -> "vou te deixar com alguém da equipe"
    [] OTHER -> ch

stripDiacritics(ch) ==
  CASE ch = "vou te deixar com alguém da equipe" -> "vou te deixar com alguem da equipe"
    [] OTHER -> ch

Punctuation == {".", "!", "?"}

normaliseString(str) ==
  LET low == [i \in 1..Len(str) |-> stripDiacritics(toLowerCase(str[i]))]
  IN SelectSeq(low, LAMBDA ch : ch \notin Punctuation)

includes(s, t) ==
  \E i \in 1..(Len(s) - Len(t) + 1) : SubSeq(s, i, i + Len(t) - 1) = t

TRANSFER_TRIGGERS ==
  { <<"vou te ", "transferir para um atendente humano">>,
    <<"vou te deixar com alguem da equipe">> }

(* ------------------------------ inputs --------------------------------- *)
RawPhones == { <<"+", "1">>, <<"+">> }
PatientTexts == { <<"oi">> }
ReplyTexts ==
  { <<"ola">>,
    <<"transferir para um atendente humano">>,
    <<"VOU TE ", "Transferir para um atendente HUMANO", "!">> }
AgentTexts == { <<" ", "bom dia", " ">>, <<" ">> }
Names == { "" }
SenderFields == { NoField, "Paciente", "Robo" }
GupshupStatuses == { 199, 200, 299, 300 }
StatusRequests == StatusValues \cup { "", "ARQUIVADO" }

(* ------------------------- store: table messages ----------------------- *)
NullInfo == [status_atendimento |-> NoStatus, status_conversa |-> NoStatus, remetente |-> "null"]

\* faulty variant: the read is not filtered by the key
RowsOfAnyKey(m, numero) == 1..Len(m)

RowsOf(m, numero) == { i \in 1..Len(m) : m[i].numero_paciente = numero }

\* .order('created_at', { ascending: false }).limit(1): any row of the key
\* with the greatest created_at (the order among equal stamps is unspecified)
LatestRows(m, numero) ==
  LET rows == RowsOf(m, numero)
  IN { i \in rows : \A j \in rows : m[j].created_at <= m[i].created_at }

getLastMessageInfo(m, numero) ==
  LET latest == LatestRows(m, numero)
  IN IF latest = {} THEN { NullInfo }
     ELSE { [status_atendimento |-> m[i].status_atendimento,
             status_conversa |-> m[i].status_conversa,
             remetente |-> m[i].remetente] : i \in latest }

\* a || b || c on status strings (null is falsy)
Or3(a, b, c) == IF a # NoStatus THEN a ELSE IF b # NoStatus THEN b ELSE c

\* created_at: nowIso().  Every insert is an awaited HTTPS round trip to the
\* store, so in a run of sequential requests the millisecond clock has advanced
\* between two inserts; stamps are kept up to their order.
nowIso(m) == Len(m) + 1

safeInsert(m, row) ==
  Append(m, [row EXCEPT !.created_at = nowIso(m)])

\* faulty variant: the rows of the key are written anew, with a new created_at
safeUpdateByNumeroReinserts(m, numeroPaciente, values) ==
  [i \in 1..Len(m) |->
     IF m[i].numero_paciente = numeroPaciente
     THEN [m[i] EXCEPT !.status_atendimento = values.status_atendimento,
                       !.status_conversa = values.status_conversa,
                       !.created_at = nowIso(m)]
     ELSE m[i]]

safeUpdateByNumero(m, numeroPaciente, values) ==
  [i \in 1..Len(m) |->
     IF m[i].numero_paciente = numeroPaciente
     THEN [m[i] EXCEPT !.status_atendimento = values.status_atendimento,
                       !.status_conversa = values.status_conversa]
     ELSE m[i]]

\* faulty variant: only status_atendimento is given a value
setConversationStatusMassOneColumn(m, numeroPaciente, statusKey) ==
  safeUpdateByNumero(m, numeroPaciente,
    [status_atendimento |-> statusKey, status_conversa |-> NoStatus])

setConversationStatusMass(m, numeroPaciente, statusKey) ==
  safeUpdateByNumero(m, numeroPaciente,
    [status_atendimento |-> statusKey, status_conversa |-> statusKey])

NewRow(instanceId, numero, nome, paciente, robo, atendente, remetente, status) ==
  [instance_id |-> instanceId, numero_paciente |-> numero, nome_paciente |-> nome,
   mensagem_paciente |-> paciente, resposta_robo |-> robo, resposta_atendente |-> atendente,
   remetente |-> remetente, status_atendimento |-> status, status_conversa |-> status,
   created_at |-> 0, updated_at |-> 0]

InsertOp(row) == [kind |-> "insert", row |-> row]
MassOp(numero, status) == [kind |-> "mass", numero |-> numero, status |-> status]

ApplyOp(m, op) ==
  IF op.kind = "insert" THEN safeInsert(m, op.row)
  ELSE setConversationStatusMass(m, op.numero, op.status)

\* The handler's store writes in program order.  Write number `fail` (0: none)
\* is rejected by the store and throws.
\* faulty variant: a rejected write takes back the rows the handler has
\* inserted before it
RECURSIVE RunOpsUndoes(_, _, _, _)
RunOpsUndoes(ops, i, m, fail) ==
  IF i > Len(ops) THEN [messages |-> m, threw |-> FALSE]
  ELSE IF i = fail
       THEN [messages |-> SubSeq(m, 1, Len(m) - Cardinality({ j \in 1..(i - 1) :
                                                     ops[j].kind = "insert" })),
             threw |-> TRUE]
  ELSE RunOpsUndoes(ops, i + 1, ApplyOp(m, ops[i]), fail)

RECURSIVE RunOps(_, _, _, _)
RunOps(ops, i, m, fail) ==
  IF i > Len(ops) THEN [messages |-> m, threw |-> FALSE]
  ELSE IF i = fail THEN [messages |-> m, threw |-> TRUE]
  ELSE RunOps(ops, i + 1, ApplyOp(m, ops[i]), fail)

Inserts(ops) == Cardinality({ i \in 1..Len(ops) : ops[i].kind = "insert" })

(* ---------------------- the ledger as the spec reads it ---------------- *)
RowStatus(r) == Or3(r.status_conversa, r.status_atendimento, Status.ROBO)

\* the last event of a key: greatest created_at, ties broken by insertion order
LastIndex(m, numero) ==
  LET latest == LatestRows(m, numero)
  IN CHOOSE i \in latest : \A j \in latest : j <= i

CurrentState(m, numero) ==
  IF \A i \in 1..Len(m) : m[i].numero_paciente # numero THEN "NONE"
  ELSE RowStatus(m[LastIndex(m, numero)])

(* ------------------------ the panel's reads ---------------------------- *)
\* .order('created_at', { ascending: true }): the rows `rows` in an order the
\* store can return them in (the order among equal stamps is unspecified)
RECURSIVE AscOrders(_, _)
AscOrders(m, rows) ==
  IF rows = {} THEN { << >> }
  ELSE UNION { { << i >> \o rest : rest \in AscOrders(m, rows \ { i }) } :
               i \in { i \in rows : \A j \in rows : m[i].created_at <= m[j].created_at } }

\* faulty variant: the first row seen for a key is kept
RECURSIVE byNumeroFirst(_, _, _, _, _)
byNumeroFirst(m, o, i, numero, prev) ==
  IF i > Len(o) THEN prev
  ELSE LET msg == o[i]
           take == m[msg].numero_paciente = numero /\ prev = 0
       IN byNumeroFirst(m, o, i + 1, numero, IF take THEN msg ELSE prev)

\* GET /api/conversations, the loop over `data`: byNumero.get(numero) after the
\* rows o[i..] have been seen, `prev` being the entry so far (0: none)
RECURSIVE byNumero(_, _, _, _, _)
byNumero(m, o, i, numero, prev) ==
  IF i > Len(o) THEN prev
  ELSE LET msg == o[i]
           take == /\ m[msg].numero_paciente = numero
                   /\ (prev = 0 \/ m[msg].created_at > m[prev].created_at)
       IN byNumero(m, o, i + 1, numero, IF take THEN msg ELSE prev)

\* statusAtendimento of the key's entry in GET /api/conversations
conversationsStatus(m, numero) ==
  { RowStatus(m[byNumero(m, o, 1, numero, 0)]) : o \in AscOrders(m, 1..Len(m)) }

\* msg.mensagem_paciente || msg.resposta_robo || msg.resposta_atendente
lastMessage(msg) ==
  IF msg.mensagem_paciente # NoText THEN msg.mensagem_paciente
  ELSE IF msg.resposta_robo # NoText THEN msg.resposta_robo
  ELSE msg.resposta_atendente

Label(status) ==
  CASE status = Status.FINALIZADO -> "FINALIZADO"
    [] status = Status.PENDENTE -> "PENDENTE"
    [] status = Status.HUMANO -> "HUMANO"
    [] OTHER -> "ROBO"

\* the entry of a key that has a row in the answer of GET /api/conversations
conversationsEntry(m, numero) ==
  { LET msg == m[byNumero(m, o, 1, numero, 0)]
    IN [numeroPaciente |-> numero, nomePaciente |-> msg.nome_paciente,
        lastMessage |-> lastMessage(msg), statusAtendimento |-> RowStatus(msg),
        lastRemetente |-> msg.remetente, label |-> Label(RowStatus(msg)),
        updatedAt |-> msg.updated_at, instanceId |-> msg.instance_id] :
    o \in AscOrders(m, 1..Len(m)) }

\* byNumero.entries(): the keys in the order the loop first met them
RECURSIVE entriesKeys(_, _, _, _)
entriesKeys(m, o, i, seen) ==
  IF i > Len(o) THEN seen
  ELSE LET key == m[o[i]].numero_paciente
       IN entriesKeys(m, o, i + 1,
                      IF \E k \in 1..Len(seen) : seen[k] = key THEN seen ELSE Append(seen, key))

\* `list` as pushed, for the rows in the order o
listOf(m, o) ==
  LET keys == entriesKeys(m, o, 1, << >>)
  IN [k \in 1..Len(keys) |->
        LET msg == m[byNumero(m, o, 1, keys[k], 0)]
        IN [numeroPaciente |-> keys[k], nomePaciente |-> msg.nome_paciente,
            lastMessage |-> lastMessage(msg), statusAtendimento |-> RowStatus(msg),
            lastRemetente |-> msg.remetente, label |-> Label(RowStatus(msg)),
            updatedAt |-> msg.updated_at, instanceId |-> msg.instance_id]]

\* faulty variant: the list is left oldest first
sortAscending(list) ==
  LET rank(i) == 1 + Cardinality({ j \in 1..Len(list) :
                                     \/ list[j].updatedAt < list[i].updatedAt
                                     \/ list[j].updatedAt = list[i].updatedAt /\ j < i })
  IN [k \in 1..Len(list) |-> list[CHOOSE i \in 1..Len(list) : rank(i) = k]]

\* list.sort((a, b) => new Date(b.updatedAt || 0) - new Date(a.updatedAt || 0)):
\* descending updatedAt, entries with equal stamps in the order they were pushed
sort(list) ==
  LET rank(i) == 1 + Cardinality({ j \in 1..Len(list) :
                                     \/ list[j].updatedAt > list[i].updatedAt
                                     \/ list[j].updatedAt = list[i].updatedAt /\ j < i })
  IN [k \in 1..Len(list) |-> list[CHOOSE i \in 1..Len(list) : rank(i) = k]]

\* the bodies GET /api/conversations can answer with
conversations(m) == { sort(listOf(m, o)) : o \in AscOrders(m, 1..Len(m)) }

\* faulty variant: the header status of an empty history is not defaulted
historyStatusNoDefault(m, numero) ==
  { IF Len(data) = 0 THEN NoStatus
    ELSE LET lastRow == m[data[Len(data)]]
         IN Or3(lastRow.status_conversa, lastRow.status_atendimento, Status.ROBO) :
    data \in AscOrders(m, RowsOf(m, numero)) }

\* X-Conversation-Status of GET /api/conversation/:numero/messages
historyStatus(m, numero) ==
  { IF Len(data) = 0 THEN Status.ROBO
    ELSE LET lastRow == m[data[Len(data)]]
         IN Or3(lastRow.status_conversa, lastRow.status_atendimento, Status.ROBO) :
    data \in AscOrders(m, RowsOf(m, numero)) }

\* the body of GET /api/conversation/:numero/messages: the key's rows in
\* ascending created_at, each shown with the status of the last of them
conversationMessages(m, numero) ==
  { LET statusAtual ==
          IF Len(data) = 0 THEN Status.ROBO
          ELSE Or3(m[data[Len(data)]].status_conversa, m[data[Len(data)]].status_atendimento,
                   Status.ROBO)
    IN [i \in 1..Len(data) |-> [m[data[i]] EXCEPT !.status_conversa = statusAtual]] :
    data \in AscOrders(m, RowsOf(m, numero)) }

(* ---------------- POST /api/webhook: the decisions -------------------- *)
Remetente(rem, respostaRobo) ==
  IF rem # NoField THEN rem ELSE IF respostaRobo # NoText THEN "Robo" ELSE "Paciente"

\* faulty variant: a patient message leaves an agent's conversation with the agent
PatientFSMKeepsHuman(current) ==
  CASE current = Status.FINALIZADO -> Status.ROBO
    [] OTHER -> current

PatientFSM(current) ==
  CASE current = Status.FINALIZADO -> Status.ROBO
    [] current = Status.HUMANO -> Status.PENDENTE
    [] OTHER -> current

\* faulty variant: a finished conversation does not block the robot
RobotBlockedPendingOnly(current) == current = Status.PENDENTE

RobotBlocked(current) == current = Status.PENDENTE \/ current = Status.FINALIZADO

IsTransfer(respostaRobo) ==
  \E t \in TRANSFER_TRIGGERS : includes(normaliseString(respostaRobo), t)

\* faulty variant: the trigger phrases are looked for in the patient's text too
PatientOpsChecksTrigger(numeroPaciente, patientName, mensagemPaciente, current) ==
  (IF mensagemPaciente # NoText
   THEN << InsertOp(NewRow("0", numeroPaciente, patientName, mensagemPaciente, NoText, NoText,
                           "Paciente", current)) >>
   ELSE << >>)
  \o (IF current = Status.PENDENTE \/ current = Status.FINALIZADO
         \/ (mensagemPaciente # NoText /\ IsTransfer(mensagemPaciente))
      THEN << MassOp(numeroPaciente, IF current = Status.FINALIZADO THEN current
                                     ELSE Status.PENDENTE) >>
      ELSE << >>)

PatientOps(numeroPaciente, patientName, mensagemPaciente, current) ==
  (IF mensagemPaciente # NoText
   THEN << InsertOp(NewRow("0", numeroPaciente, patientName, mensagemPaciente, NoText, NoText,
                           "Paciente", current)) >>
   ELSE << >>)
  \o (IF current = Status.PENDENTE \/ current = Status.FINALIZADO
      THEN << MassOp(numeroPaciente, current) >>
      ELSE << >>)

\* faulty variant: the hand-off stamps only the robot's own row
RobotOpsNoMass(numeroPaciente, patientName, respostaRobo, current) ==
  IF respostaRobo = NoText \/ RobotBlocked(current) THEN << >>
  ELSE << InsertOp(NewRow("0", numeroPaciente, patientName, NoText, respostaRobo, NoText, "Robo",
                          IF IsTransfer(respostaRobo) THEN Status.PENDENTE ELSE Status.ROBO)) >>

RobotOps(numeroPaciente, patientName, respostaRobo, current) ==
  IF respostaRobo = NoText \/ RobotBlocked(current) THEN << >>
  ELSE LET statusForBot == IF IsTransfer(respostaRobo) THEN Status.PENDENTE ELSE Status.ROBO
       IN (IF IsTransfer(respostaRobo) THEN << MassOp(numeroPaciente, Status.PENDENTE) >> ELSE << >>)
          \o << InsertOp(NewRow("0", numeroPaciente, patientName, NoText, respostaRobo, NoText,
                                "Robo", statusForBot)) >>

WebhookOps(numeroPaciente, patientName, mensagemPaciente, respostaRobo, remetente, seed) ==
  IF remetente = "Paciente"
  THEN PatientOps(numeroPaciente, patientName, mensagemPaciente, PatientFSM(seed))
       \o RobotOps(numeroPaciente, patientName, respostaRobo, PatientFSM(seed))
  ELSE RobotOps(numeroPaciente, patientName, respostaRobo, seed)

(* ------------------------ collaborators' answers ----------------------- *)
\* .from('instances').select('token, source_number').eq(...).single():
\* no row / error, a row without token, a row without source_number, a full row
InstanceRows ==
  { [found |-> FALSE, token |-> FALSE, source_number |-> FALSE],
    [found |-> TRUE, token |-> FALSE, source_number |-> TRUE],
    [found |-> TRUE, token |-> TRUE, source_number |-> FALSE],
    [found |-> TRUE, token |-> TRUE, source_number |-> TRUE] }

\* axios.post with validateStatus: () => true: a response with any status, or
\* a throw (timeout 15000, network error)
GupshupAnswers ==
  { [threw |-> TRUE, status |-> 0] } \cup { [threw |-> FALSE, status |-> s] : s \in GupshupStatuses }

\* the answer of a collaborator that was not asked
NotAsked == [found |-> FALSE, token |-> TRUE, source_number |-> TRUE]
NotCalled == [threw |-> FALSE, status |-> 0]

(* --------------------- the request being answered ---------------------- *)
\* `last` is the request in progress with the answer the handler has computed
\* for it: the route (op), the inputs, the table as it was when the request
\* arrived (before), and the response (http, out, and Gupshup's status as the
\* 502 body echoes it); body is the text of a webhook body that does not
\* parse and lookup tells that the handler has read the key's latest row.
\* Requests are served one at a time.
Idle ==
  [op |-> "idle", raw |-> << >>, msg |-> NoText, reply |-> NoText, rem |-> NoField,
   name |-> "", texto |-> NoText, inst |-> NotAsked, resp |-> NotCalled, desired |-> "",
   fail |-> 0, before |-> << >>, http |-> 0, out |-> "", status |-> 0,
   body |-> "{}", lookup |-> FALSE]

Answer(req, http, out, status) ==
  [req EXCEPT !.before = messages, !.http = http, !.out = out, !.status = status]

\* res.json(...) / res.status(...).json(...): the response leaves the handler
Respond ==
  /\ last.op # "idle"
  /\ last' = Idle
  /\ UNCHANGED messages

(* ------------------------- POST /api/webhook --------------------------- *)
\* String(req.body || '') of bodies JSON.parse throws on: no body, a
\* truncated object, text that is not JSON, a body the text parser left as an
\* object
MalformedBodies == { "", "{\"numeroPaciente\":", "oi", "[object Object]" }

\* faulty variant: the SyntaxError is not caught and no response is sent
WebhookMalformedUncaught ==
  /\ last.op = "idle"
  /\ \E body \in MalformedBodies :
       last' = Answer([Idle EXCEPT !.op = "webhookMalformed", !.body = body], 0, "", 0)
  /\ UNCHANGED messages

WebhookMalformed ==
  /\ last.op = "idle"
  /\ \E body \in MalformedBodies :
       last' = Answer([Idle EXCEPT !.op = "webhookMalformed", !.body = body],
                      400, "JSON malformado", 0)
  /\ UNCHANGED messages

\* the row read by getLastMessageInfo seeds `current`
Seed(lastInfo) == Or3(lastInfo.status_conversa, lastInfo.status_atendimento, Status.ROBO)

\* the store writes a delivery can be rejected at (0: none is rejected)
WebhookFailPoints(numeroPaciente, patientName, mensagemPaciente, respostaRobo, rem) ==
  IF numeroPaciente = <<>> THEN { 0 }
  ELSE UNION { 0 .. Len(WebhookOps(numeroPaciente, patientName, mensagemPaciente, respostaRobo,
                                   Remetente(rem, respostaRobo), Seed(lastInfo))) :
               lastInfo \in getLastMessageInfo(messages, numeroPaciente) }

\* one delivery with a parsed body; `fail` is the store write that is rejected
WebhookReq(raw, mensagemPaciente, respostaRobo, patientName, rem, fail) ==
  LET numeroPaciente == normalizePhone(raw)
      remetente == Remetente(rem, respostaRobo)
      req == [Idle EXCEPT !.op = "webhook", !.raw = raw, !.msg = mensagemPaciente,
                          !.reply = respostaRobo, !.name = patientName, !.rem = rem,
                          !.fail = fail]
  IN IF numeroPaciente = <<>>
     THEN /\ fail = 0
          /\ last' = Answer(req, 400, "Missing numeroPaciente", 0)
          /\ UNCHANGED messages
     ELSE \E lastInfo \in getLastMessageInfo(messages, numeroPaciente) :
            LET seed == Seed(lastInfo)
                current == IF remetente = "Paciente" THEN PatientFSM(seed) ELSE seed
                ops == WebhookOps(numeroPaciente, patientName, mensagemPaciente,
                                  respostaRobo, remetente, seed)
                r == RunOps(ops, 1, messages, fail)
            IN /\ fail \in 0 .. Len(ops)
               /\ Len(messages) + Inserts(ops) <= MaxRows
               /\ messages' = r.messages
               /\ last' = Answer([req EXCEPT !.lookup = TRUE], IF r.threw THEN 500 ELSE 200,
                            IF r.threw THEN "Webhook insert failed"
                            ELSE IF respostaRobo # NoText /\ RobotBlocked(current)
                                 THEN "suppressed" ELSE "received", 0)

Webhook ==
  /\ last.op = "idle"
  /\ \E raw \in RawPhones, mensagemPaciente \in PatientTexts \cup {NoText},
        respostaRobo \in ReplyTexts \cup {NoText}, patientName \in Names, rem \in SenderFields :
       \E fail \in WebhookFailPoints(normalizePhone(raw), patientName, mensagemPaciente,
                                     respostaRobo, rem) :
         WebhookReq(raw, mensagemPaciente, respostaRobo, patientName, rem, fail)

(* --------------------------- human send -------------------------------- *)
\* faulty variant: the source number is not tested
InstanceReadyTokenOnly(inst) == ~(~inst.found \/ ~inst.token)

InstanceReady(inst) == ~(~inst.found \/ ~inst.token \/ ~inst.source_number)

\* faulty variant: only the lower end of the 2xx range is tested
GupshupOkFrom200(status) == ~(status < 200)

GupshupOk(status) == ~(status < 200 \/ status >= 300)

\* faulty variant: the agent's row is stored without the mass update
HumanOpsNoMass(phone, patientName, text) ==
  << InsertOp(NewRow("0", phone, patientName, NoText, NoText, text, "Atendente", Status.HUMANO)) >>

HumanOps(phone, patientName, text) ==
  << MassOp(phone, Status.HUMANO),
     InsertOp(NewRow("0", phone, patientName, NoText, NoText, text, "Atendente", Status.HUMANO)) >>

\* which collaborator is asked on the way through handleHumanSend, and what
\* it can answer
InstanceAnswers(phone, text) ==
  IF phone = <<>> \/ text = NoText THEN { NotAsked } ELSE InstanceRows

GupshupAnswersFor(inst) ==
  IF InstanceReady(inst) THEN GupshupAnswers ELSE { NotCalled }

HumanFailPoints(resp) ==
  IF resp # NotCalled /\ ~resp.threw /\ GupshupOk(resp.status) THEN 0 .. 2 ELSE { 0 }

\* faulty variant: the call is outside the route's try (as in v11f), so a throw
\* leaves the request without a response
RouteCatchMissing(failText) == [http |-> 0, out |-> ""]

\* try { ... } catch (err) { return res.status(500).json({ error: ... }) }
RouteCatch(failText) == [http |-> 500, out |-> failText]

\* handleHumanSend behind a route; a throw inside it is caught by the route,
\* which answers 500 with its own text
handleHumanSend(op, failText, raw, texto, patientName, inst, resp, fail) ==
  LET phone == normalizePhone(raw)
      text == trim(texto)
      req == [Idle EXCEPT !.op = op, !.raw = raw, !.texto = texto, !.name = patientName,
                          !.inst = inst, !.resp = resp, !.fail = fail]
  IN /\ inst \in InstanceAnswers(phone, text)
     /\ resp \in GupshupAnswersFor(inst)
     /\ fail \in HumanFailPoints(resp)
     /\ IF phone = <<>> \/ text = NoText
        THEN /\ last' = Answer(req, 400, "numeroPaciente e texto sao obrigatorios", 0)
             /\ UNCHANGED messages
        ELSE IF ~InstanceReady(inst)
        THEN /\ last' = Answer(req, 500, "instance_not_ready", 0)
             /\ UNCHANGED messages
        ELSE IF resp.threw
        THEN /\ last' = Answer(req, RouteCatch(failText).http, RouteCatch(failText).out, 0)
             /\ UNCHANGED messages
        ELSE IF ~GupshupOk(resp.status)
        THEN /\ last' = Answer(req, 502, "gupshup_fail", resp.status)
             /\ UNCHANGED messages
        ELSE LET ops == HumanOps(phone, patientName, text)
                 r == RunOps(ops, 1, messages, fail)
             IN /\ Len(messages) + Inserts(ops) <= MaxRows
                /\ messages' = r.messages
                /\ last' = Answer(req, IF r.threw THEN RouteCatch(failText).http ELSE 200,
                                  IF r.threw THEN RouteCatch(failText).out ELSE "success", 0)

HumanSendReq(raw, texto, patientName, inst, resp, fail) ==
  handleHumanSend("humanSend", "Failed to save message", raw, texto, patientName, inst, resp, fail)

MessagesCompatReq(raw, texto, patientName, inst, resp, fail) ==
  handleHumanSend("messagesCompat", "Failed to send message", raw, texto, patientName, inst, resp, fail)

HumanSend ==
  /\ last.op = "idle"
  /\ \E raw \in RawPhones, texto \in AgentTexts \cup {NoText}, patientName \in Names :
       \E inst \in InstanceAnswers(normalizePhone(raw), trim(texto)) :
         \E resp \in GupshupAnswersFor(inst) :
           \E fail \in HumanFailPoints(resp) :
             HumanSendReq(raw, texto, patientName, inst, resp, fail)

MessagesCompat ==
  /\ last.op = "idle"
  /\ \E raw \in RawPhones, texto \in AgentTexts \cup {NoText}, patientName \in Names :
       \E inst \in InstanceAnswers(normalizePhone(raw), trim(texto)) :
         \E resp \in GupshupAnswersFor(inst) :
           \E fail \in HumanFailPoints(resp) :
             MessagesCompatReq(raw, texto, patientName, inst, resp, fail)

(* ----------------- PATCH /api/conversation/:numero/status -------------- *)
\* faulty variant: any non-empty status is accepted
ValidStatusAnyText(desired) == desired # ""

ValidStatus(desired) == desired # "" /\ desired \in StatusValues

PatchFailPoints(desired) == IF ValidStatus(desired) THEN 0 .. 1 ELSE { 0 }

PatchStatusReq(raw, desired, fail) ==
  LET numero == normalizePhone(raw)
      r == RunOps(<< MassOp(numero, desired) >>, 1, messages, fail)
      req == [Idle EXCEPT !.op = "patchStatus", !.raw = raw, !.desired = desired, !.fail = fail]
  IN /\ fail \in PatchFailPoints(desired)
     /\ IF ~ValidStatus(desired)
        THEN /\ last' = Answer(req, 400, "status invalido", 0)
             /\ UNCHANGED messages
        ELSE /\ messages' = r.messages
             /\ last' = Answer(req, IF r.threw THEN 500 ELSE 200,
                               IF r.threw THEN "Failed to update status" ELSE "success", 0)

PatchStatus ==
  /\ last.op = "idle"
  /\ \E raw \in RawPhones, desired \in StatusRequests :
       \E fail \in PatchFailPoints(desired) :
         PatchStatusReq(raw, desired, fail)

(* ------------- POST /api/webhook: deliveries served concurrently -------- *)
\* Every `await` of the handler is a round trip to the store; between two of
\* them the handlers of other connections run.  One step of a delivery is one
\* round trip landing at the store together with the synchronous code that
\* follows it up to the next await.  `conns` holds, per connection, the
\* delivery in progress; `now` is the last reading of the server's clock.
Conn == { "a", "b" }

\* pc: free, reading (getLastMessageInfo in flight), writing (ops[1] in
\* flight), done.  stamp: the clock when the round trip in flight was issued.
\* written, interfered, stale: the delivery's writes that have landed; whether
\* a write of another connection for the same key has landed since its read;
\* whether its first write found a state other than the one it had read.
Free ==
  [pc |-> "free", raw |-> << >>, msg |-> NoText, reply |-> NoText, rem |-> NoField,
   seed |-> NoStatus, ops |-> << >>, stamp |-> 0, written |-> 0,
   interfered |-> FALSE, stale |-> FALSE, out |-> ""]

\* const payload = { ...row, created_at: nowIso(), updated_at: nowIso() }
Payload(row, t) == [row EXCEPT !.created_at = t, !.updated_at = t]

\* supabase.from('messages').insert(payload)
StoreInsert(m, payload) == Append(m, payload)

\* faulty variant: status_conversa is given the row's previous status
setConversationStatusMassAtLagging(m, numeroPaciente, statusKey, t) ==
  [i \in 1..Len(m) |->
     IF m[i].numero_paciente = numeroPaciente
     THEN [m[i] EXCEPT !.status_atendimento = statusKey,
                       !.status_conversa = m[i].status_atendimento, !.updated_at = t]
     ELSE m[i]]

\* faulty variant: the update is not filtered by the key
setConversationStatusMassAtEveryKey(m, numeroPaciente, statusKey, t) ==
  [i \in 1..Len(m) |->
     [m[i] EXCEPT !.status_atendimento = statusKey, !.status_conversa = statusKey,
                  !.updated_at = t]]

\* setConversationStatusMass with the clock read at `t`:
\* values = { status_atendimento, status_conversa, updated_at: nowIso() }
setConversationStatusMassAt(m, numeroPaciente, statusKey, t) ==
  [i \in 1..Len(m) |->
     IF m[i].numero_paciente = numeroPaciente
     THEN [m[i] EXCEPT !.status_atendimento = statusKey, !.status_conversa = statusKey,
                       !.updated_at = t]
     ELSE m[i]]

\* nowIso() read after a round trip that was issued at `issued`: the
\* millisecond of the clock's last reading or a later one, and (a round trip
\* to the store spans a tick of the clock) later than `issued`
ClockReadings(issued) == { t \in { now, now + 1 } : t > issued }

(* ----------------------------- behaviour ------------------------------- *)
\* the table already holds a conversation of another patient
OtherKey == <<"2">>

Init ==
  /\ messages = safeInsert(<< >>, NewRow("0", OtherKey, "", <<"oi">>, NoText, NoText,
                                        "Paciente", Status.ROBO))
  /\ last = Idle
  /\ now = 1
  /\ conns = [c \in Conn |-> Free]
  /\ HAS_STATUS_CONVERSA = TRUE

\* requests served one at a time
Next ==
  \/ WebhookMalformed /\ UNCHANGED <<now, conns, HAS_STATUS_CONVERSA>>
  \/ Webhook /\ UNCHANGED <<now, conns, HAS_STATUS_CONVERSA>>
  \/ HumanSend /\ UNCHANGED <<now, conns, HAS_STATUS_CONVERSA>>
  \/ MessagesCompat /\ UNCHANGED <<now, conns, HAS_STATUS_CONVERSA>>
  \/ PatchStatus /\ UNCHANGED <<now, conns, HAS_STATUS_CONVERSA>>
  \/ Respond /\ UNCHANGED <<now, conns, HAS_STATUS_CONVERSA>>

Spec == Init /\ [][Next]_vars

(* ------------------- behaviour: concurrent deliveries ------------------ *)
\* two conversations, and the three shapes of delivery the assistant's
\* platform sends: the patient's message alone, the patient's message with a
\* reply that hands off, the assistant's reply alone
ConcRawPhones == { <<"+", "1">>, <<"2">> }

ConcPayloads ==
  { [msg |-> <<"oi">>, reply |-> NoText, rem |-> NoField],
    [msg |-> <<"oi">>, reply |-> <<"VOU TE ", "Transferir para um atendente HUMANO", "!">>,
     rem |-> "Paciente"],
    [msg |-> NoText, reply |-> <<"ola">>, rem |-> NoField] }

\* the tables the concurrent deliveries find: no conversation yet, or one
\* conversation of one event in any of the four states
ConcTables ==
  { << >> } \cup
  { << Payload(NewRow("0", <<"1">>, "", <<"oi">>, NoText, NoText, "Paciente", st), 1) >> :
      st \in StatusValues }

InitConc ==
  /\ messages \in ConcTables
  /\ last = Idle
  /\ now = 1
  /\ conns = [c \in Conn |-> Free]
  /\ HAS_STATUS_CONVERSA = TRUE

\* the inserts that connections have issued or will issue and that have not landed
PendingInserts == LET n(c) == Inserts(conns[c].ops) IN n("a") + n("b")

\* the states a read of the key can return now
SeedsNow(m, numero) == { Seed(lastInfo) : lastInfo \in getLastMessageInfo(m, numero) }

\* the handler runs on from a landed round trip: the next write reads the
\* clock (created_at, updated_at) and goes to the store, or the response is sent
Resume(d, rest, t) ==
  IF rest = << >>
  THEN [d EXCEPT !.pc = "done", !.ops = << >>, !.stamp = 0]
  ELSE [d EXCEPT !.pc = "writing", !.ops = rest, !.stamp = t]

\* lines 857-871: a delivery with a key arrives, its body is parsed and
\* getLastMessageInfo goes to the store
ConcArrive(c) ==
  /\ conns[c].pc = "free"
  /\ \E raw \in ConcRawPhones, p \in ConcPayloads :
       conns' = [conns EXCEPT ![c] = [Free EXCEPT !.pc = "reading", !.raw = raw, !.msg = p.msg,
                                                  !.reply = p.reply, !.rem = p.rem,
                                                  !.stamp = now]]
  /\ UNCHANGED <<messages, last, now, HAS_STATUS_CONVERSA>>

\* lines 871-891: getLastMessageInfo lands at the store; `current` and the
\* writes that follow are fixed by what it returns
ConcRead(c) ==
  /\ conns[c].pc = "reading"
  /\ LET d == conns[c]
         numeroPaciente == normalizePhone(d.raw)
         remetente == Remetente(d.rem, d.reply)
     IN \E lastInfo \in getLastMessageInfo(messages, numeroPaciente) :
          LET seed == Seed(lastInfo)
              current == IF remetente = "Paciente" THEN PatientFSM(seed) ELSE seed
              ops == WebhookOps(numeroPaciente, "", d.msg, d.reply, remetente, seed)
              read == [d EXCEPT !.seed = seed,
                                !.out = IF d.reply # NoText /\ RobotBlocked(current)
                                        THEN "suppressed" ELSE "received"]
          IN /\ Len(messages) + PendingInserts + Inserts(ops) <= MaxRows
             /\ \E t \in IF ops = << >> THEN { now } ELSE ClockReadings(d.stamp) :
                  /\ conns' = [conns EXCEPT ![c] = Resume(read, ops, t)]
                  /\ now' = t
  /\ UNCHANGED <<messages, last, HAS_STATUS_CONVERSA>>

\* one awaited write of the delivery lands at the store and the handler runs
\* on to its next await or to its response
ConcWrite(c) ==
  /\ conns[c].pc = "writing"
  /\ LET d == conns[c]
         numeroPaciente == normalizePhone(d.raw)
         op == d.ops[1]
         rest == Tail(d.ops)
         first == d.written = 0
         landed == [d EXCEPT !.written = d.written + 1,
                             !.stale = IF first THEN d.seed \notin SeedsNow(messages, numeroPaciente)
                                       ELSE d.stale]
     IN \E t \in IF rest = << >> THEN { now } ELSE ClockReadings(d.stamp) :
          /\ messages' = IF op.kind = "insert" THEN StoreInsert(messages, Payload(op.row, d.stamp))
                          ELSE setConversationStatusMassAt(messages, op.numero, op.status, d.stamp)
          /\ conns' = [x \in Conn |->
                         IF x = c THEN Resume(landed, rest, t)
                         ELSE IF conns[x].pc = "writing"
                                 /\ normalizePhone(conns[x].raw) = numeroPaciente
                              THEN [conns[x] EXCEPT !.interfered = TRUE]
                              ELSE conns[x]]
          /\ now' = t
  /\ UNCHANGED <<last, HAS_STATUS_CONVERSA>>

\* each connection carries one delivery: two deliveries race
NextConc ==
  \/ \E c \in Conn : ConcArrive(c)
  \/ \E c \in Conn : ConcRead(c)
  \/ \E c \in Conn : ConcWrite(c)

SpecConc == InitConc /\ [][NextConc]_vars

(* --------------- behaviour: requests under the server's clock ---------- *)
\* Requests served one at a time, as in Spec, with the clock that stamps
\* created_at and updated_at: every write is a round trip, so it reads the
\* clock later than the write before it.  `last` is the last request that
\* was answered, with the table it found and the request before it.
MaxClock == 4

\* the panel closes and reopens conversations; "ARQUIVADO" is not a status
ClockStatusRequests == { Status.FINALIZADO, Status.ROBO, "ARQUIVADO" }

NoRequest == [op |-> "none", raw |-> << >>, desired |-> "", http |-> 0]

Summary(req) == [op |-> req.op, raw |-> req.raw, desired |-> req.desired, http |-> req.http]

ApplyOpAt(m, op, t) ==
  IF op.kind = "insert" THEN StoreInsert(m, Payload(op.row, t))
  ELSE setConversationStatusMassAt(m, op.numero, op.status, t)

\* the handler's awaited writes in program order, the first at t + 1
RECURSIVE RunOpsAt(_, _, _, _)
RunOpsAt(ops, i, m, t) ==
  IF i > Len(ops) THEN m
  ELSE RunOpsAt(ops, i + 1, ApplyOpAt(m, ops[i], t + i), t)

InitClock ==
  /\ messages \in ConcTables
  /\ last = [op |-> "none", raw |-> << >>, desired |-> "", http |-> 0,
             before |-> << >>, prev |-> NoRequest]
  /\ now = 1
  /\ conns = [c \in Conn |-> Free]
  /\ HAS_STATUS_CONVERSA = TRUE

\* POST /api/webhook, lines 862-893, every write accepted
ClockWebhook ==
  \E raw \in ConcRawPhones, p \in ConcPayloads :
    LET numeroPaciente == normalizePhone(raw)
        remetente == Remetente(p.rem, p.reply)
    IN \E lastInfo \in getLastMessageInfo(messages, numeroPaciente) :
         LET ops == WebhookOps(numeroPaciente, "", p.msg, p.reply, remetente, Seed(lastInfo))
         IN /\ Len(messages) + Inserts(ops) <= MaxRows
            /\ now + Len(ops) <= MaxClock
            /\ messages' = RunOpsAt(ops, 1, messages, now)
            /\ now' = now + Len(ops)
            /\ last' = [op |-> "webhook", raw |-> raw, desired |-> "", http |-> 200,
                        before |-> messages, prev |-> Summary(last)]
            /\ UNCHANGED <<conns, HAS_STATUS_CONVERSA>>

\* PATCH /api/conversation/:numero/status, lines 937-944, the write accepted
ClockPatchStatus ==
  \E raw \in ConcRawPhones, desired \in ClockStatusRequests :
    /\ IF ~ValidStatus(desired)
       THEN /\ UNCHANGED <<messages, now>>
            /\ last' = [op |-> "patchStatus", raw |-> raw, desired |-> desired, http |-> 400,
                        before |-> messages, prev |-> Summary(last)]
       ELSE /\ now + 1 <= MaxClock
            /\ messages' = setConversationStatusMassAt(messages, normalizePhone(raw), desired, now + 1)
            /\ now' = now + 1
            /\ last' = [op |-> "patchStatus", raw |-> raw, desired |-> desired, http |-> 200,
                        before |-> messages, prev |-> Summary(last)]
    /\ UNCHANGED <<conns, HAS_STATUS_CONVERSA>>

NextClock ==
  \/ ClockWebhook
  \/ ClockPatchStatus

SpecClock == InitClock /\ [][NextClock]_vars

(***************************************************************************)
(* Properties.  The states carry the names the specification gives them;   *)
(* the patient transition is the function nextStatusOnPatient of the       *)
(* earlier revision (src/unnamed/part_002), the table the v11h handler is  *)
(* compared with.                                                          *)
(***************************************************************************)
BOT_ACTIVE == "EM_ATENDIMENTO_ROBO"
AWAITING_HUMAN == "PENDENTE"
HUMAN_ACTIVE == "EM_ATENDIMENTO_HUMANO"
CLOSED == "FINALIZADO"
UNKNOWN == "NONE"

nextStatusOnPatient(lastStatus) ==
  CASE lastStatus = "FINALIZADO" -> "EM_ATENDIMENTO_ROBO"
    [] lastStatus = "PENDENTE" -> "PENDENTE"
    [] lastStatus = "EM_ATENDIMENTO_HUMANO" -> "PENDENTE"
    [] lastStatus = "EM_ATENDIMENTO_ROBO" -> "EM_ATENDIMENTO_ROBO"
    [] OTHER -> "EM_ATENDIMENTO_ROBO"

Key == <<"1">>
RawKey == <<"+", "1">>

IsPatientEvent(r) == r.remetente = "Paciente" /\ r.mensagem_paciente # NoText
IsAssistantEvent(r) == r.remetente = "Robo" /\ r.resposta_robo # NoText
IsAgentEvent(r) == r.remetente = "Atendente" /\ r.resposta_atendente # NoText

\* the table when the request in progress arrived, the rows the request has
\* added to it (oldest first), and the state its key was in
Appended == SubSeq(messages, Len(last.before) + 1, Len(messages))
Prior == CurrentState(last.before, Key)

\* a webhook delivery for Key has been handled and the store rejected no write
Delivered == last.op = "webhook" /\ last.raw = RawKey /\ last.fail = 0

\* a human send for Key through either route has been handled to the end of
\* the Gupshup call
HumanSent ==
  /\ last.op \in { "humanSend", "messagesCompat" }
  /\ last.raw = RawKey
  /\ last.resp \in GupshupAnswers /\ ~last.resp.threw

\* every event stored under a key carries the state S
AllStates(m, numero, S) == \A i \in RowsOf(m, numero) : RowStatus(m[i]) = S

\* the request has added exactly one row: a patient event of Key with state S
AppendsPatientEvent(S) ==
  /\ Len(Appended) = 1
  /\ IsPatientEvent(Appended[1])
  /\ Appended[1].numero_paciente = Key
  /\ RowStatus(Appended[1]) = S

(* ------------------------------- C1 ------------------------------------ *)
(* C1 as stated: for every prior state S, a webhook delivery that carries a
   patient message and no assistant reply (whatever else its payload holds,
   the store accepting every write) is acknowledged and appends one patient
   event whose stateAtEvent is: CLOSED -> BOT_ACTIVE, AWAITING_HUMAN ->
   AWAITING_HUMAN, HUMAN_ACTIVE -> AWAITING_HUMAN, BOT_ACTIVE -> BOT_ACTIVE,
   no prior event -> BOT_ACTIVE; that state is the conversation's current
   state afterwards. *)
C1AsStated ==
  (Delivered /\ last.msg # NoText /\ last.reply = NoText)
  => /\ last.http = 200
     /\ AppendsPatientEvent(nextStatusOnPatient(Prior))
     /\ CurrentState(messages, Key) = nextStatusOnPatient(Prior)

(* C1 amended: for every prior state S, a webhook delivery that carries a
   patient message, no assistant reply, and either no sender field or the
   sender 'Paciente' is acknowledged and appends one patient event whose
   stateAtEvent is: CLOSED -> BOT_ACTIVE, AWAITING_HUMAN -> AWAITING_HUMAN,
   HUMAN_ACTIVE -> AWAITING_HUMAN, BOT_ACTIVE -> BOT_ACTIVE, no prior event
   -> BOT_ACTIVE; that state is the conversation's current state afterwards. *)
C1PatientTransition ==
  (Delivered /\ last.msg # NoText /\ last.reply = NoText /\ last.rem \in { NoField, "Paciente" })
  => /\ last.http = 200
     /\ AppendsPatientEvent(nextStatusOnPatient(Prior))
     /\ CurrentState(messages, Key) = nextStatusOnPatient(Prior)

\* a patient message has requeued a conversation that an agent was handling
C1Witness ==
  /\ Delivered /\ last.msg # NoText /\ last.reply = NoText /\ last.rem = NoField
  /\ Prior = HUMAN_ACTIVE
  /\ AppendsPatientEvent(AWAITING_HUMAN)
  /\ CurrentState(messages, Key) = AWAITING_HUMAN

(* ------------------------------- C2 ------------------------------------ *)
(* C2 as stated: when one delivery carries a patient message and an
   assistant reply, for every prior state S the patient event is appended
   first, and the reply is suppressed exactly when the state produced by this
   delivery's patient transition forbids a reply, that is, when it is
   AWAITING_HUMAN or CLOSED (so S = HUMAN_ACTIVE suppresses and S = CLOSED allows). *)
C2AsStated ==
  (Delivered /\ last.msg # NoText /\ last.reply # NoText /\ last.rem = NoField)
  => /\ Len(Appended) >= 1
     /\ IsPatientEvent(Appended[1])
     /\ (last.out = "suppressed")
          <=> (nextStatusOnPatient(Prior) \in { AWAITING_HUMAN, CLOSED })

(* ------------------------------- C3 ------------------------------------ *)
(* C3 as stated: every acknowledged webhook delivery that carries a patient
   message for a valid key (with or without an assistant reply, suppressed
   or not) has appended exactly one patient event for that key. *)
C3AsStated ==
  (last.op = "webhook" /\ last.raw = RawKey /\ last.msg # NoText /\ last.rem = NoField
     /\ last.http = 200)
  => Cardinality({ i \in 1..Len(Appended) :
                     IsPatientEvent(Appended[i]) /\ Appended[i].numero_paciente = Key }) = 1

(* ------------------------------- C4 ------------------------------------ *)
(* C4 as stated: while the current state of a conversation is AWAITING_HUMAN
   or HUMAN_ACTIVE, no webhook delivery appends an assistant event, and after
   it the state is still AWAITING_HUMAN or HUMAN_ACTIVE. *)
C4AsStated ==
  (last.op = "webhook" /\ last.raw = RawKey /\ Prior \in { AWAITING_HUMAN, HUMAN_ACTIVE })
  => /\ \A i \in 1..Len(Appended) : ~IsAssistantEvent(Appended[i])
     /\ CurrentState(messages, Key) \in { AWAITING_HUMAN, HUMAN_ACTIVE }

(* ------------------------------- C5 ------------------------------------ *)
\* the state in effect at the permission check: the state read for the key
\* (BOT_ACTIVE when it has no event), advanced by the patient transition when
\* the delivery is the patient's
StateAtCheck(prior, rem) ==
  LET seed == IF prior = UNKNOWN THEN BOT_ACTIVE ELSE prior
  IN IF rem = "Paciente" THEN nextStatusOnPatient(seed) ELSE seed

(* C5: a webhook delivery with an assistant reply (the store accepting every
   write) appends the assistant event, as the last row and once, when the
   state in effect at the permission check is BOT_ACTIVE or HUMAN_ACTIVE, and
   appends no assistant event when it is AWAITING_HUMAN or CLOSED. *)
C5ReplyGate ==
  (Delivered /\ last.reply # NoText)
  => IF StateAtCheck(Prior, last.rem) \in { AWAITING_HUMAN, CLOSED }
     THEN \A i \in 1..Len(Appended) : ~IsAssistantEvent(Appended[i])
     ELSE /\ Len(Appended) >= 1
          /\ IsAssistantEvent(Appended[Len(Appended)])
          /\ Appended[Len(Appended)].resposta_robo = last.reply
          /\ Appended[Len(Appended)].numero_paciente = Key
          /\ Cardinality({ i \in 1..Len(Appended) : IsAssistantEvent(Appended[i]) }) = 1

\* a reply has been suppressed for a conversation that a patient message,
\* delivered with it, has just requeued
C5Witness ==
  /\ Delivered /\ last.reply # NoText /\ last.msg # NoText /\ last.rem = "Paciente"
  /\ Prior = HUMAN_ACTIVE
  /\ last.out = "suppressed"
  /\ AppendsPatientEvent(AWAITING_HUMAN)

(* ------------------------------- C6 ------------------------------------ *)
(* C6 as stated: from AWAITING_HUMAN, a delivery with a patient message and
   an assistant reply appends the patient event with stateAtEvent
   AWAITING_HUMAN and no assistant event, leaves the state AWAITING_HUMAN and
   is acknowledged with suppressed = true. *)
C6AsStated ==
  (Delivered /\ last.msg # NoText /\ last.reply # NoText /\ last.rem = NoField
     /\ Prior = AWAITING_HUMAN)
  => /\ last.http = 200 /\ last.out = "suppressed"
     /\ AppendsPatientEvent(AWAITING_HUMAN)
     /\ CurrentState(messages, Key) = AWAITING_HUMAN

(* ------------------------------- C7 ------------------------------------ *)
TransferPhrase == << "transferir para um atendente humano" >>

\* the hand-off: the assistant event is the last row, the state is
\* AWAITING_HUMAN and every event of the key carries it
HandedOff ==
  /\ last.http = 200
  /\ Len(Appended) >= 1
  /\ IsAssistantEvent(Appended[Len(Appended)])
  /\ Appended[Len(Appended)].resposta_robo = last.reply
  /\ CurrentState(messages, Key) = AWAITING_HUMAN
  /\ AllStates(messages, Key, AWAITING_HUMAN)

(* C7 as stated: from BOT_ACTIVE, a delivery whose assistant reply contains
   "transferir para um atendente humano" ends with the assistant event
   appended, the state AWAITING_HUMAN, and every event of the key carrying
   AWAITING_HUMAN. *)
C7AsStated ==
  (Delivered /\ last.rem = NoField /\ Prior = BOT_ACTIVE
     /\ includes(normaliseString(last.reply), TransferPhrase))
  => HandedOff

(* C7 amended: from BOT_ACTIVE, a delivery whose normalised assistant reply
   contains one of the configured trigger phrases ("vou te transferir para um
   atendente humano", "vou te deixar com alguem da equipe") ends with the
   assistant event appended, the state AWAITING_HUMAN, and every event of the
   key (earlier events, this delivery's patient event, the assistant event)
   carrying AWAITING_HUMAN. *)
C7Handoff ==
  (Delivered /\ Prior = BOT_ACTIVE
     /\ \E t \in TRANSFER_TRIGGERS : includes(normaliseString(last.reply), t))
  => HandedOff

\* a hand-off has restamped an earlier event of the conversation and the
\* patient event delivered with the reply
C7Witness ==
  /\ Delivered /\ last.msg # NoText /\ last.rem = "Paciente"
  /\ Prior = BOT_ACTIVE
  /\ IsTransfer(last.reply)
  /\ Len(Appended) = 2
  /\ IsPatientEvent(Appended[1])
  /\ HandedOff
  /\ Cardinality(RowsOf(messages, Key)) = 3

(* ------------------------------- C8 ------------------------------------ *)
(* C8 as stated: for a key with no event, a delivery with a patient message
   and an assistant reply without trigger phrase appends exactly two events,
   patient then assistant, both BOT_ACTIVE, and the state is BOT_ACTIVE. *)
C8AsStated ==
  (Delivered /\ last.msg # NoText /\ last.reply # NoText /\ last.rem = NoField
     /\ Prior = UNKNOWN
     /\ ~includes(normaliseString(last.reply), TransferPhrase))
  => /\ Len(Appended) = 2
     /\ IsPatientEvent(Appended[1]) /\ RowStatus(Appended[1]) = BOT_ACTIVE
     /\ IsAssistantEvent(Appended[2]) /\ RowStatus(Appended[2]) = BOT_ACTIVE
     /\ CurrentState(messages, Key) = BOT_ACTIVE

(* ------------------------------- C9 ------------------------------------ *)
(* C9: when Gupshup answers a human send with a status outside 200..299, no
   row is appended, no row is changed, and the caller gets 502 gupshup_fail. *)
C9DeliveryRejected ==
  (HumanSent /\ (last.resp.status < 200 \/ last.resp.status > 299))
  => /\ messages = last.before
     /\ last.http = 502 /\ last.out = "gupshup_fail"

\* Gupshup has answered 300 for a conversation the robot holds
C9Witness ==
  /\ HumanSent /\ last.resp.status = 300
  /\ Prior = BOT_ACTIVE
  /\ last.http = 502 /\ last.status = 300
  /\ messages = last.before

(* ------------------------------- C10 ----------------------------------- *)
(* C10: a human send that Gupshup confirms with a status in 200..299 (the
   store accepting both writes) ends, for every prior state, with exactly one
   row appended, an agent event that is the key's latest event, with every
   event of the key carrying HUMAN_ACTIVE and the state HUMAN_ACTIVE. *)
C10HumanTakesOver ==
  (HumanSent /\ last.resp.status >= 200 /\ last.resp.status <= 299 /\ last.fail = 0)
  => /\ last.http = 200
     /\ Len(Appended) = 1
     /\ IsAgentEvent(Appended[1])
     /\ Appended[1].numero_paciente = Key
     /\ Appended[1].resposta_atendente = trim(last.texto)
     /\ LastIndex(messages, Key) = Len(messages)
     /\ AllStates(messages, Key, HUMAN_ACTIVE)
     /\ CurrentState(messages, Key) = HUMAN_ACTIVE

\* an agent has taken over a closed conversation of two events
C10Witness ==
  /\ HumanSent /\ last.resp.status = 299 /\ last.fail = 0
  /\ last.op = "messagesCompat"
  /\ Prior = CLOSED
  /\ Cardinality(RowsOf(last.before, Key)) = 2
  /\ IsAgentEvent(messages[Len(messages)])
  /\ AllStates(messages, Key, HUMAN_ACTIVE)

(* ------------------------------- C11 ----------------------------------- *)
\* the text each human-send route answers a caught throw with
FailText(op) == IF op = "humanSend" THEN "Failed to save message" ELSE "Failed to send message"

(* C11: when the Gupshup call of a human send (either route) throws or times
   out instead of answering with a status, the request still ends with a
   failure response (500 with the route's error text), no row is appended
   and no row's state is changed. *)
C11DeliveryThrows ==
  (last.op \in { "humanSend", "messagesCompat" } /\ last.raw = RawKey /\ last.resp.threw)
  => /\ last.http = 500
     /\ last.out = FailText(last.op)
     /\ messages = last.before

\* the Gupshup call has timed out for a conversation waiting for an agent
C11Witness ==
  /\ last.op = "humanSend" /\ last.raw = RawKey /\ last.resp.threw
  /\ Prior = AWAITING_HUMAN
  /\ last.http = 500
  /\ messages = last.before

(* ------------------------------- C12 ----------------------------------- *)
(* C12 as stated: a webhook delivery whose key is missing or normalises to
   empty, or whose patient message is absent, is rejected with a validation
   failure (400) and the store is unchanged, also when an assistant reply is
   present. *)
C12AsStated ==
  (last.op = "webhook" /\ (normalizePhone(last.raw) = << >> \/ last.msg = NoText))
  => /\ last.http = 400
     /\ messages = last.before

(* ------------------------------- C13 ----------------------------------- *)
(* C13: among concurrent webhook deliveries, one whose first write lands on a
   key whose state is no longer the state the delivery read (so the event it
   appends carries a stateAtEvent computed from a replaced state) has had a
   write of another delivery for the same key land between its read and that
   write; deliveries for other keys never replace the state a delivery
   computed from.  The lost update itself is reachable (C13LostUpdate). *)
C13KeysIsolated ==
  \A c \in Conn : conns[c].stale => conns[c].interfered

\* a lost update: a hand-off by one delivery is complete, and the patient
\* event of a delivery that read the key before the hand-off has landed after
\* it with stateAtEvent BOT_ACTIVE, which is now the conversation's state
C13LostUpdate ==
  \E c, d \in Conn :
    /\ c # d
    /\ conns[c].pc = "done" /\ conns[d].pc = "done"
    /\ conns[c].raw = RawKey /\ conns[d].raw = RawKey
    /\ IsTransfer(conns[d].reply) /\ conns[d].out = "received"
    /\ conns[c].msg # NoText /\ conns[c].reply = NoText
    /\ conns[c].seed = BOT_ACTIVE /\ conns[c].stale
    /\ LastIndex(messages, Key) = Len(messages)
    /\ IsPatientEvent(messages[Len(messages)])
    /\ CurrentState(messages, Key) = BOT_ACTIVE
    /\ \E i \in RowsOf(messages, Key) :
         IsAssistantEvent(messages[i]) /\ RowStatus(messages[i]) = AWAITING_HUMAN

(* ------------------------------- C14 ----------------------------------- *)
\* the keys that have an event
KeysOf(m) == { m[i].numero_paciente : i \in 1..Len(m) }

(* C14 as stated: in every reachable ledger, for every key with an event,
   the state read to seed the transition (getLastMessageInfo), the state of
   the key's entry in GET /api/conversations and the status header of the
   key's history are all the stateAtEvent of the key's last event, the event
   with the greatest createdAt, ties broken by insertion order. *)
C14AsStated ==
  \A numero \in KeysOf(messages) :
    /\ SeedsNow(messages, numero) = { CurrentState(messages, numero) }
    /\ conversationsStatus(messages, numero) = { CurrentState(messages, numero) }
    /\ historyStatus(messages, numero) = { CurrentState(messages, numero) }

(* ------------------------------- C15 ----------------------------------- *)
\* the status override for Key was called with state S and accepted, twice in
\* a row: `last.before` is the table after the first call, `messages` the
\* table after the second
OverriddenTwice(S) ==
  /\ last.op = "patchStatus" /\ last.raw = RawKey /\ last.desired = S /\ last.http = 200
  /\ last.prev = [op |-> "patchStatus", raw |-> RawKey, desired |-> S, http |-> 200]
  /\ Key \in KeysOf(messages)

\* an entry of GET /api/conversations without its recency stamp
WithoutStamp(e) == [e EXCEPT !.updatedAt = 0]

(* C15 as stated: calling the override for a key with state S twice in a row
   leaves the key's entry in GET /api/conversations (state, last text, last
   sender, label, recency stamp) the same as calling it once. *)
C15AsStated ==
  \A S \in ClockStatusRequests :
    OverriddenTwice(S) => conversationsEntry(messages, Key) = conversationsEntry(last.before, Key)

(* C15 amended: calling the override for a key with state S twice in a row
   leaves the key's entry in GET /api/conversations the same as calling it
   once in state, last text, last sender, label, name and instance; the
   recency stamp is that of the second call. *)
C15IdempotentButStamp ==
  \A S \in ClockStatusRequests :
    OverriddenTwice(S) =>
      /\ { WithoutStamp(e) : e \in conversationsEntry(messages, Key) }
           = { WithoutStamp(e) : e \in conversationsEntry(last.before, Key) }
      /\ \A e \in conversationsEntry(messages, Key) :
           e.statusAtendimento = S /\ e.updatedAt = now

\* a conversation of two events has been closed twice in a row: the entry
\* shows the same state and last text with a later recency stamp
C15Witness ==
  /\ OverriddenTwice(CLOSED)
  /\ Cardinality(RowsOf(messages, Key)) = 2
  /\ \E e \in conversationsEntry(messages, Key), f \in conversationsEntry(last.before, Key) :
       /\ WithoutStamp(e) = WithoutStamp(f)
       /\ e.statusAtendimento = CLOSED
       /\ e.updatedAt > f.updatedAt

(* ------------------------------- C16 ----------------------------------- *)
\* an event as it was stored, apart from the status the history projects on it
Event(r) == [r EXCEPT !.status_conversa = NoStatus]

\* the events stored under a key, in the order they were inserted
InsertedEvents(m, numero) ==
  LET rows == SelectSeq(m, LAMBDA r : r.numero_paciente = numero)
  IN [i \in 1..Len(rows) |-> Event(rows[i])]

(* C16 as stated: in every reachable ledger, also when two requests append
   concurrently or within the same clock tick, the history of a key holds
   every event appended for the key exactly once, in the order the events
   were inserted. *)
C16AsStated ==
  \A numero \in KeysOf(messages) :
    \A h \in conversationMessages(messages, numero) :
      [i \in 1..Len(h) |-> Event(h[i])] = InsertedEvents(messages, numero)

(* ------------------------------- C17 ----------------------------------- *)
\* The inserts of the earlier revisions kept in the repository: the webhook
\* and the status override of src/unnamed/part_000, which store 'Sistema'
\* marker rows, and POST /api/conversas of src/server.js.  They write the
\* same table; created_at is the store's default and the column
\* status_conversa is not written.  Requests are served one at a time.
MarkerRawPhones == { <<"+", "1">>, <<"+">> }
MarkerTexts == { NoText, <<"oi">> }
MarkerReplies == { NoText, <<"ola">>, <<"Vou Transferir para um atendente humano", "!">> }
MarkerStatusRequests == { "", Status.FINALIZADO, Status.ROBO, "ARQUIVADO" }

MarkerRow(instanceId, numero, nome, paciente, robo, atendente, remetente, status) ==
  [NewRow(instanceId, numero, nome, paciente, robo, atendente, remetente, status)
     EXCEPT !.status_conversa = NoStatus]

\* supabase.from('messages').insert(row): created_at by the store
insert(m, row) == Append(m, [row EXCEPT !.created_at = Len(m) + 1])

\* part_000 lines 282-294: the 'Sistema' row of a transfer
TransferMarker(instanceId, numeroPaciente, patientName) ==
  MarkerRow(instanceId, numeroPaciente, patientName, NoText, NoText, NoText,
            "Sistema", Status.PENDENTE)

\* part_000 lines 384-396: the 'Sistema' row of a status override
OverrideMarker(numero, statusAtendimento) ==
  MarkerRow("0", numero, "null", NoText, NoText, NoText, "Sistema", statusAtendimento)

\* part_000 lines 247-297: the rows one delivery inserts, in program order
MarkerWebhookRows(numeroPaciente, patientName, mensagemPaciente, respostaRobo, lastStatus) ==
  LET patientStatus == nextStatusOnPatient(lastStatus)
      patient == MarkerRow("0", numeroPaciente, patientName, mensagemPaciente, NoText, NoText,
                           "Paciente", patientStatus)
      robot == MarkerRow("0", numeroPaciente, patientName, NoText, respostaRobo, NoText,
                         "Robo", Status.ROBO)
  IN IF respostaRobo = NoText THEN << patient >>
     ELSE IF patientStatus = Status.PENDENTE \/ patientStatus = Status.FINALIZADO
          THEN << patient >>
     ELSE IF includes(normaliseString(respostaRobo), TransferPhrase)
          THEN << patient, robot, TransferMarker("0", numeroPaciente, patientName) >>
     ELSE << patient, robot >>

RECURSIVE insertAll(_, _, _)
insertAll(m, rows, i) ==
  IF i > Len(rows) THEN m ELSE insertAll(insert(m, rows[i]), rows, i + 1)

InitMarkers ==
  /\ messages = << >>
  /\ last = [op |-> "none", http |-> 0]
  /\ now = 1
  /\ conns = [c \in Conn |-> Free]
  /\ HAS_STATUS_CONVERSA = TRUE

\* POST /api/webhook, part_000 lines 239-300
MarkerWebhook ==
  \E raw \in MarkerRawPhones, mensagemPaciente \in MarkerTexts, respostaRobo \in MarkerReplies :
    LET numeroPaciente == normalizePhone(raw)
    IN /\ IF numeroPaciente = << >> \/ mensagemPaciente = NoText
          THEN /\ UNCHANGED messages
               /\ last' = [op |-> "webhook", http |-> 400]
          ELSE \E lastInfo \in getLastMessageInfo(messages, numeroPaciente) :
                 LET rows == MarkerWebhookRows(numeroPaciente, "", mensagemPaciente,
                                               respostaRobo, lastInfo.status_atendimento)
                 IN /\ Len(messages) + Len(rows) <= MaxRows
                    /\ messages' = insertAll(messages, rows, 1)
                    /\ last' = [op |-> "webhook", http |-> 200]
       /\ UNCHANGED <<now, conns, HAS_STATUS_CONVERSA>>

\* PATCH /api/conversation/:numero/status, part_000 lines 378-400
MarkerPatchStatus ==
  \E raw \in MarkerRawPhones, statusAtendimento \in MarkerStatusRequests :
    LET numero == normalizePhone(raw)
    IN /\ IF statusAtendimento = ""
          THEN /\ UNCHANGED messages
               /\ last' = [op |-> "patchStatus", http |-> 400]
          ELSE /\ Len(messages) + 1 <= MaxRows
               /\ messages' =
                    insert([i \in 1..Len(messages) |->
                              IF messages[i].numero_paciente = numero
                              THEN [messages[i] EXCEPT !.status_atendimento = statusAtendimento]
                              ELSE messages[i]],
                           OverrideMarker(numero, statusAtendimento))
               /\ last' = [op |-> "patchStatus", http |-> 200]
       /\ UNCHANGED <<now, conns, HAS_STATUS_CONVERSA>>

\* POST /api/conversas, src/server.js lines 584-606
Conversas ==
  \E numeroPaciente \in { << >>, Key }, nomePaciente \in { "", "Ana" }, texto \in MarkerTexts :
    /\ IF numeroPaciente = << >>
       THEN /\ UNCHANGED messages
            /\ last' = [op |-> "conversas", http |-> 400]
       ELSE /\ Len(messages) + 1 <= MaxRows
            /\ messages' =
                 insert(messages,
                        MarkerRow("null", numeroPaciente, "undefined", texto, NoText, NoText,
                                  IF nomePaciente # "" THEN nomePaciente ELSE "Paciente",
                                  Status.PENDENTE))
            /\ last' = [op |-> "conversas", http |-> 200]
    /\ UNCHANGED <<now, conns, HAS_STATUS_CONVERSA>>

NextMarkers ==
  \/ MarkerWebhook
  \/ MarkerPatchStatus
  \/ Conversas

SpecMarkers == InitMarkers /\ [][NextMarkers]_vars

PayloadSlots(r) ==
  Cardinality({ f \in { "mensagem_paciente", "resposta_robo", "resposta_atendente" } :
                  r[f] # NoText })

(* C17 as stated: in every reachable ledger every stored event has exactly
   one of patientText, assistantText, agentText populated; no operation
   (webhook, transfer handling, administrative override, conversation
   creation) inserts an event with zero or with more than one payload slot. *)
C17AsStated ==
  \A i \in 1..Len(messages) : PayloadSlots(messages[i]) = 1

(* ------------- behaviour: deliveries at a store that fails ------------- *)
\* How the store answers one awaited write of a delivery: accepted ("ok");
\* rejected with an error that names status_conversa, and the write sent
\* again without the column accepted ("column") or rejected as well
\* ("columnTwice"); rejected with any other error ("other").  A read is
\* answered with the rows or with an error.  Requests are served one at a
\* time and created_at is kept up to the order of the inserts, as in Spec.
StoreAnswers == { "ok", "column", "columnTwice", "other" }
ReadAnswers == { "ok", "failed" }
MaxWrites == 3

isStatusColError(answer) == answer = "column" \/ answer = "columnTwice"

\* faulty variant: the insert's error is not looked at
safeInsertUnchecked(m, row, answer, has) ==
  IF answer = "ok"
  THEN [messages |-> safeInsert(m, row), threw |-> FALSE, has |-> has, sent |-> 1]
  ELSE [messages |-> m, threw |-> FALSE, has |-> has, sent |-> 1]

\* safeInsert with the store's answer: the table, whether it threw, the flag
\* HAS_STATUS_CONVERSA and the number of times the insert was sent
safeInsertAnswered(m, row, answer, has) ==
  IF answer = "ok"
  THEN [messages |-> safeInsert(m, row), threw |-> FALSE, has |-> has, sent |-> 1]
  ELSE IF isStatusColError(answer)
       THEN IF answer = "column"
            THEN [messages |-> safeInsert(m, [row EXCEPT !.status_conversa = NoStatus]),
                  threw |-> FALSE, has |-> FALSE, sent |-> 2]
            ELSE [messages |-> m, threw |-> TRUE, has |-> FALSE, sent |-> 2]
       ELSE [messages |-> m, threw |-> TRUE, has |-> has, sent |-> 1]

\* .update(values).eq('numero_paciente', numeroPaciente), values with or
\* without status_conversa
storeUpdate(m, numeroPaciente, statusKey, withConversa) ==
  [i \in 1..Len(m) |->
     IF m[i].numero_paciente = numeroPaciente
     THEN IF withConversa
          THEN [m[i] EXCEPT !.status_atendimento = statusKey, !.status_conversa = statusKey]
          ELSE [m[i] EXCEPT !.status_atendimento = statusKey]
     ELSE m[i]]

\* faulty variant: status_conversa is written whatever HAS_STATUS_CONVERSA holds
setConversationStatusMassFlagIgnored(m, numeroPaciente, statusKey, answer, has) ==
  IF answer = "ok"
  THEN [messages |-> storeUpdate(m, numeroPaciente, statusKey, TRUE),
        threw |-> FALSE, has |-> has, sent |-> 1]
  ELSE IF isStatusColError(answer)
       THEN IF answer = "column"
            THEN [messages |-> storeUpdate(m, numeroPaciente, statusKey, FALSE),
                  threw |-> FALSE, has |-> FALSE, sent |-> 2]
            ELSE [messages |-> m, threw |-> TRUE, has |-> FALSE, sent |-> 2]
       ELSE [messages |-> m, threw |-> TRUE, has |-> has, sent |-> 1]

\* setConversationStatusMass and safeUpdateByNumero with the store's answer
setConversationStatusMassAnswered(m, numeroPaciente, statusKey, answer, has) ==
  IF answer = "ok"
  THEN [messages |-> storeUpdate(m, numeroPaciente, statusKey, has),
        threw |-> FALSE, has |-> has, sent |-> 1]
  ELSE IF isStatusColError(answer)
       THEN IF answer = "column"
            THEN [messages |-> storeUpdate(m, numeroPaciente, statusKey, FALSE),
                  threw |-> FALSE, has |-> FALSE, sent |-> 2]
            ELSE [messages |-> m, threw |-> TRUE, has |-> FALSE, sent |-> 2]
       ELSE [messages |-> m, threw |-> TRUE, has |-> has, sent |-> 1]

ApplyOpAnswered(m, op, answer, has) ==
  IF op.kind = "insert" THEN safeInsertAnswered(m, op.row, answer, has)
  ELSE setConversationStatusMassAnswered(m, op.numero, op.status, answer, has)

\* the handler's awaited writes in program order, up to the first that throws;
\* sent[i] is the number of times write i went to the store
RECURSIVE RunOpsAnswered(_, _, _, _, _, _)
RunOpsAnswered(ops, i, m, answers, has, sent) ==
  IF i > Len(ops) THEN [messages |-> m, threw |-> FALSE, has |-> has, sent |-> sent]
  ELSE LET r == ApplyOpAnswered(m, ops[i], answers[i], has)
       IN IF r.threw
          THEN [messages |-> r.messages, threw |-> TRUE, has |-> r.has,
                sent |-> Append(sent, r.sent)]
          ELSE RunOpsAnswered(ops, i + 1, r.messages, answers, r.has, Append(sent, r.sent))

\* getLastMessageInfo, lines 728-737: only `data` is taken from the answer
getLastMessageInfoAnswered(m, numero, read) ==
  IF read = "failed" THEN { NullInfo } ELSE getLastMessageInfo(m, numero)

\* the answers to the writes of one delivery: nothing is asked of the store
\* after the write that throws
Throws(answer) == answer = "columnTwice" \/ answer = "other"

AnswerScripts(n) ==
  { answers \in [1..n -> StoreAnswers] :
      \A i \in 1..n : Throws(answers[i]) => \A j \in (i + 1)..n : answers[j] = "ok" }

\* the deliveries: a patient who writes a trigger phrase, with no reply and
\* with a reply that is not a hand-off; a patient's message with a reply that
\* hands off; the assistant's reply alone
FaultPayloads ==
  { [msg |-> <<"VOU TE ", "Transferir para um atendente HUMANO", "!">>, reply |-> NoText,
     rem |-> NoField],
    [msg |-> <<"VOU TE ", "Transferir para um atendente HUMANO", "!">>, reply |-> <<"ola">>,
     rem |-> "Paciente"],
    [msg |-> <<"oi">>, reply |-> <<"VOU TE ", "Transferir para um atendente HUMANO", "!">>,
     rem |-> "Paciente"],
    [msg |-> NoText, reply |-> <<"ola">>, rem |-> NoField] }

\* a write by what it is: the insert of the patient's or the robot's row, or
\* the mass update
WriteName(op) == IF op.kind = "insert" THEN op.row.remetente ELSE "mass"

\* `last` is the delivery in progress with the answer the handler has computed
\* for it, as in Spec
NoDelivery ==
  [op |-> "none", raw |-> << >>, msg |-> NoText, reply |-> NoText, rem |-> NoField,
   read |-> "ok", answers |-> << >>, writes |-> << >>, sent |-> << >>,
   before |-> << >>, http |-> 0, out |-> ""]

InitFaults ==
  /\ messages \in ConcTables
  /\ last = NoDelivery
  /\ now = 1
  /\ conns = [c \in Conn |-> Free]
  /\ HAS_STATUS_CONVERSA = TRUE

\* POST /api/webhook, lines 861-894, with a key
FaultyWebhook ==
  /\ last.op = "none"
  /\ \E p \in FaultPayloads, read \in ReadAnswers :
       LET numeroPaciente == normalizePhone(RawKey)
           remetente == Remetente(p.rem, p.reply)
       IN \E lastInfo \in getLastMessageInfoAnswered(messages, numeroPaciente, read) :
            LET seed == Seed(lastInfo)
                current == IF remetente = "Paciente" THEN PatientFSM(seed) ELSE seed
            IN \E ops \in { WebhookOps(numeroPaciente, "", p.msg, p.reply, remetente, seed) } :
                 /\ Len(ops) <= MaxWrites
                 /\ Len(messages) + Inserts(ops) <= MaxRows
                 /\ \E answers \in AnswerScripts(Len(ops)) :
                      \E r \in { RunOpsAnswered(ops, 1, messages, answers,
                                                HAS_STATUS_CONVERSA, << >>) } :
                        /\ messages' = r.messages
                        /\ HAS_STATUS_CONVERSA' = r.has
                        /\ last' = [op |-> "webhook", raw |-> RawKey, msg |-> p.msg,
                                    reply |-> p.reply, rem |-> p.rem, read |-> read,
                                    answers |-> answers,
                                    writes |-> [i \in 1..Len(ops) |-> WriteName(ops[i])],
                                    sent |-> r.sent, before |-> messages,
                                    http |-> IF r.threw
                                             THEN RouteCatch("Webhook insert failed").http
                                             ELSE 200,
                                    out |-> IF r.threw
                                            THEN RouteCatch("Webhook insert failed").out
                                            ELSE IF p.reply # NoText /\ RobotBlocked(current)
                                                 THEN "suppressed" ELSE "received"]
  /\ UNCHANGED <<now, conns>>

\* the response leaves the handler
FaultyRespond ==
  /\ last.op # "none"
  /\ last' = NoDelivery
  /\ UNCHANGED <<messages, now, conns, HAS_STATUS_CONVERSA>>

NextFaults ==
  \/ FaultyWebhook
  \/ FaultyRespond

SpecFaults == InitFaults /\ [][NextFaults]_vars

(* ------------------------------- C18 ----------------------------------- *)
\* the delivery in `last` sent the insert of a patient event as its write i
\* and the store rejected it
PatientInsertRejected(i) ==
  /\ last.op = "webhook"
  /\ i \in 1..Len(last.sent)
  /\ last.writes[i] = "Paciente"
  /\ last.answers[i] # "ok"

AssistantAppended == \E j \in 1..Len(Appended) : Appended[j].remetente = "Robo"

(* C18 as stated: when the store rejects the insert of the patient event,
   the delivery is reported to the caller as a failure, no assistant event is
   appended by that delivery, and the handler does not retry the insert. *)
C18AsStated ==
  \A i \in 1..MaxWrites :
    PatientInsertRejected(i) =>
      /\ last.http = 500
      /\ ~AssistantAppended
      /\ last.sent[i] = 1

(* C18: a rejected insert of the patient event is sent again only when the
   error names the column status_conversa, once and without that column; when
   the rejection is any other error, or the second insert is rejected as well,
   the delivery is answered 500 "Webhook insert failed" and appends nothing;
   when the second insert is accepted the patient event is stored without
   status_conversa and the delivery is not reported as a failure. *)
C18RejectedPatientInsert ==
  \A i \in 1..MaxWrites :
    PatientInsertRejected(i) =>
      /\ last.sent[i] = (IF isStatusColError(last.answers[i]) THEN 2 ELSE 1)
      /\ Throws(last.answers[i]) =>
           /\ last.http = 500
           /\ last.out = "Webhook insert failed"
           /\ messages = last.before
      /\ last.answers[i] = "column" =>
           /\ Len(Appended) >= 1
           /\ IsPatientEvent(Appended[1])
           /\ Appended[1].status_conversa = NoStatus
           /\ ~HAS_STATUS_CONVERSA
           /\ (\A j \in 1..Len(last.answers) : ~Throws(last.answers[j])) => last.http = 200

\* a delivery with a patient message and a reply whose patient insert is
\* rejected outright: the reply is never stored
C18Witness ==
  /\ PatientInsertRejected(1)
  /\ last.answers[1] = "other"
  /\ last.writes = << "Paciente", "mass", "Robo" >>
  /\ last.http = 500
  /\ messages = last.before

(* ------------------------------- C19 ----------------------------------- *)
(* C19 as stated: when the read of the key's latest event fails at the store
   during a webhook delivery, the failure is surfaced to the caller and
   nothing is appended; a failed read is never treated as "no prior events". *)
C19AsStated ==
  (last.op = "webhook" /\ last.read = "failed") =>
    /\ last.http = 500
    /\ messages = last.before

(* ------------------------------- C20 ----------------------------------- *)
\* a delivery for Key from the patient with a message and a reply the state
\* allows; the store accepted the writes before the robot's insert (the
\* patient's insert and, for a hand-off, the mass update) and rejected it
AssistantInsertFailed ==
  /\ last.op = "webhook" /\ last.raw = RawKey
  /\ Remetente(last.rem, last.reply) = "Paciente"
  /\ last.msg # NoText /\ last.reply # NoText
  /\ ~RobotBlocked(StateAtCheck(Prior, "Paciente"))
  /\ last.fail = (IF IsTransfer(last.reply) THEN 3 ELSE 2)

\* two rows that differ at most in the status columns
SameButStatus(a, b) ==
  [a EXCEPT !.status_atendimento = NoStatus, !.status_conversa = NoStatus]
    = [b EXCEPT !.status_atendimento = NoStatus, !.status_conversa = NoStatus]

(* C20: when within one webhook delivery the insert of the patient event is
   accepted and the insert of the assistant event is then rejected, the
   caller is answered 500 "Webhook insert failed", the table holds the
   patient event and no assistant event of that delivery, and nothing is
   taken back: the rows stored before are all there and a hand-off's mass
   update to PENDENTE stays applied. *)
C20PatientEventOnly ==
  AssistantInsertFailed =>
    /\ last.http = 500
    /\ last.out = "Webhook insert failed"
    /\ Len(Appended) = 1
    /\ IsPatientEvent(Appended[1])
    /\ Appended[1].numero_paciente = Key
    /\ Appended[1].mensagem_paciente = last.msg
    /\ \A i \in 1..Len(last.before) : SameButStatus(messages[i], last.before[i])
    /\ IsTransfer(last.reply) => AllStates(messages, Key, Status.PENDENTE)
    /\ ~IsTransfer(last.reply) =>
         /\ RowStatus(Appended[1]) = StateAtCheck(Prior, "Paciente")
         /\ \A i \in 1..Len(last.before) : messages[i] = last.before[i]

\* the robot's insert of a hand-off is rejected after the patient's row and
\* the mass update went through
C20Witness ==
  /\ AssistantInsertFailed
  /\ IsTransfer(last.reply)
  /\ Len(last.before) > 1
  /\ Len(Appended) = 1
  /\ AllStates(messages, Key, Status.PENDENTE)
  /\ last.http = 500

(* ------------------------------- C21 ----------------------------------- *)
\* the delivery in `last` was served by a store that answered its read and
\* accepted every write
FaultFree ==
  /\ last.op = "webhook"
  /\ last.read = "ok"
  /\ \A i \in 1..Len(last.answers) : last.answers[i] = "ok"

\* the patient's text holds a trigger phrase and the reply, if any, does not
TriggerInPatientText ==
  /\ FaultFree
  /\ last.msg # NoText /\ IsTransfer(last.msg)
  /\ last.reply = NoText \/ ~IsTransfer(last.reply)

\* a row that was in the table when the request arrived has been rewritten
BulkRewritten == \E i \in 1..Len(last.before) : messages[i] # last.before[i]

(* C21 as stated: a webhook delivery whose patient message contains a trigger
   phrase (and whose reply, if any, does not) never forces the state to
   AWAITING_HUMAN and never triggers a bulk override. *)
C21AsStated ==
  TriggerInPatientText =>
    /\ CurrentState(messages, Key) # AWAITING_HUMAN
    /\ ~BulkRewritten

(* C21: the trigger check is not applied to the patient's text: after a
   delivery whose patient message contains a trigger phrase and whose reply
   does not, the conversation is in AWAITING_HUMAN, or rows stored before
   have been rewritten, only when the state in effect at the permission
   check (the prior state, advanced by the patient transition for a
   patient's delivery) is AWAITING_HUMAN already. *)
C21TriggerOnlyInReply ==
  (TriggerInPatientText /\ (CurrentState(messages, Key) = AWAITING_HUMAN \/ BulkRewritten))
    => StateAtCheck(Prior, Remetente(last.rem, last.reply)) = AWAITING_HUMAN

\* the assistant's conversation stays with the assistant although the
\* patient wrote the phrase
C21Witness ==
  /\ TriggerInPatientText
  /\ Prior = BOT_ACTIVE
  /\ Len(Appended) = 1 /\ IsPatientEvent(Appended[1])
  /\ CurrentState(messages, Key) = BOT_ACTIVE
  /\ ~BulkRewritten

(* ------------------------------- C22 ----------------------------------- *)
\* Trigger detection as a function of the reply: every reply of up to MaxLen
\* chunks over the alphabet below is put through the test of line 889.  The
\* alphabet holds the pieces of the two trigger phrases in lower case, with
\* capitals and with the accent, the punctuation marks . ! ?, and a word
\* that belongs to no phrase.
MaxLen == 3

Alphabet ==
  { "vou te ", "VOU TE ",
    "transferir para um atendente humano", "Transferir para um atendente HUMANO",
    "vou te deixar com alguem da equipe", "vou te deixar com alguém da equipe",
    "Vou te deixar com alguém da equipe",
    ".", "!", "?", "ola" }

Replies == UNION { [1..n -> Alphabet] : n \in 0..MaxLen }

InitText ==
  /\ messages = << >>
  /\ \E r \in Replies : last = [op |-> "asked", reply |-> r, verdict |-> FALSE]
  /\ now = 1
  /\ conns = [c \in Conn |-> Free]
  /\ HAS_STATUS_CONVERSA = TRUE

\* TRANSFER_TRIGGERS.some(t => normaliseString(respostaRobo).includes(t)), line 889
TextDetect ==
  /\ last.op = "asked"
  /\ last' = [last EXCEPT !.op = "verdict", !.verdict = IsTransfer(last.reply)]
  /\ UNCHANGED <<messages, now, conns, HAS_STATUS_CONVERSA>>

NextText == TextDetect

SpecText == InitText /\ [][NextText]_vars

\* what a chunk reads as when letter case, accents and . ! ? are set aside
\* (<< >> for a punctuation mark)
Letters(ch) ==
  CASE ch \in { "vou te ", "VOU TE " } -> << "vou te " >>
    [] ch \in { "transferir para um atendente humano", "Transferir para um atendente HUMANO" }
         -> << "transferir para um atendente humano" >>
    [] ch \in { "vou te deixar com alguem da equipe", "vou te deixar com alguém da equipe",
                "Vou te deixar com alguém da equipe" }
         -> << "vou te deixar com alguem da equipe" >>
    [] ch \in { ".", "!", "?" } -> << >>
    [] OTHER -> << ch >>

RECURSIVE Reads(_)
Reads(text) == IF text = << >> THEN << >> ELSE Letters(Head(text)) \o Reads(Tail(text))

\* the configured phrases, as they read
Phrases ==
  { << "vou te ", "transferir para um atendente humano" >>,
    << "vou te deixar com alguem da equipe" >> }

ContainsPhrase(text) ==
  \E ph \in Phrases : \E i \in 1..Len(text) :
    i + Len(ph) - 1 <= Len(text) /\ SubSeq(text, i, i + Len(ph) - 1) = ph

\* the replies one edit away from `text` that read the same: a chunk replaced
\* by one with the same letters, a punctuation mark put in or taken out
SameReading(text) ==
  { r \in { [text EXCEPT ![i] = ch] : i \in 1..Len(text), ch \in Alphabet }
          \cup { SubSeq(text, 1, i) \o << ch >> \o SubSeq(text, i + 1, Len(text)) :
                   i \in 0..Len(text), ch \in { ".", "!", "?" } }
          \cup { SubSeq(text, 1, i - 1) \o SubSeq(text, i + 1, Len(text)) : i \in 1..Len(text) } :
      Reads(r) = Reads(text) }

(* C22: a reply triggers exactly when, letter case, accents and the
   characters . ! ? set aside, it contains a configured trigger phrase,
   anywhere in the text; replies that differ only in letter case, accents or
   . ! ? get the same verdict. *)
C22TriggerDetection ==
  last.op = "verdict" =>
    /\ last.verdict = ContainsPhrase(Reads(last.reply))
    /\ \A r \in SameReading(last.reply) : IsTransfer(r) = last.verdict

\* a phrase in capitals, with the accent and a full stop, between other words
C22Witness ==
  /\ last.op = "verdict"
  /\ last.reply = << "ola", "Vou te deixar com alguém da equipe", "." >>
  /\ last.verdict

(* ------------------------------- C23 ----------------------------------- *)
(* C23: a webhook body that does not parse is answered 400 "JSON malformado";
   the handler has read nothing from the table and written nothing to it,
   and the response leaves the handler, after which the server takes the
   next request. *)
C23MalformedRejected ==
  last.op = "webhookMalformed" =>
    /\ last.http = 400
    /\ last.out = "JSON malformado"
    /\ ~last.lookup
    /\ messages = last.before
    /\ ENABLED Respond

\* a truncated body arrives after the server has stored a conversation
C23Witness ==
  /\ last.op = "webhookMalformed"
  /\ last.body = "{\"numeroPaciente\":"
  /\ last.http = 400
  /\ RowsOf(messages, Key) # {}

(* ------------------------------- C24 ----------------------------------- *)
\* the label the panel shows for a state
LabelOf(state) ==
  CASE state = BOT_ACTIVE -> "ROBO"
    [] state = AWAITING_HUMAN -> "PENDENTE"
    [] state = HUMAN_ACTIVE -> "HUMANO"
    [] state = CLOSED -> "FINALIZADO"

\* the payload slot of an event that is populated
PayloadText(r) ==
  IF r.mensagem_paciente # NoText THEN r.mensagem_paciente
  ELSE IF r.resposta_robo # NoText THEN r.resposta_robo
  ELSE r.resposta_atendente

(* C24: the conversation list holds exactly one summary for every key that
   has an event and none for any other key; each summary's state, last text
   and last sender are those of the key's latest event (an event of the
   key with the greatest createdAt), and its label is
   ROBO (ROBÔ) for BOT_ACTIVE, PENDENTE for AWAITING_HUMAN, HUMANO for
   HUMAN_ACTIVE and FINALIZADO for CLOSED. *)
C24ListIsLatest ==
  \A list \in conversations(messages) :
    /\ Len(list) = Cardinality(KeysOf(messages))
    /\ { list[k].numeroPaciente : k \in 1..Len(list) } = KeysOf(messages)
    /\ \A k \in 1..Len(list) :
         \E i \in LatestRows(messages, list[k].numeroPaciente) :
           /\ list[k].statusAtendimento = RowStatus(messages[i])
           /\ list[k].lastMessage = PayloadText(messages[i])
           /\ list[k].lastRemetente = messages[i].remetente
           /\ list[k].label = LabelOf(RowStatus(messages[i]))

\* two conversations, one of them closed after the assistant's reply
C24Witness ==
  /\ Cardinality(KeysOf(messages)) = 2
  /\ Cardinality(RowsOf(messages, Key)) >= 2
  /\ \E list \in conversations(messages) :
       /\ Len(list) = 2
       /\ \E k \in 1..2 : /\ list[k].numeroPaciente = Key
                          /\ list[k].label = "FINALIZADO"
                          /\ list[k].lastRemetente = "Robo"

(* ------------------------------- C25 ----------------------------------- *)
\* an accepted status override is the request in progress
Overridden == last.op = "patchStatus" /\ last.http = 200

\* two rows that differ at most in the status columns and the update stamp
SameEvent(a, b) ==
  [a EXCEPT !.status_atendimento = NoStatus, !.status_conversa = NoStatus, !.updated_at = 0]
    = [b EXCEPT !.status_atendimento = NoStatus, !.status_conversa = NoStatus, !.updated_at = 0]

(* C25: an accepted override of key K to state S leaves every event of K with
   stateAtEvent = S and otherwise as it was apart from the update stamp,
   changes no field of an event of another key, and neither adds nor removes
   events. *)
C25OverrideFrame ==
  Overridden =>
    /\ Len(messages) = Len(last.before)
    /\ \A i \in 1..Len(last.before) :
         IF last.before[i].numero_paciente = normalizePhone(last.raw)
         THEN /\ RowStatus(messages[i]) = last.desired
              /\ SameEvent(messages[i], last.before[i])
         ELSE messages[i] = last.before[i]

\* a conversation of two events is closed while another conversation exists
C25Witness ==
  /\ Overridden
  /\ last.desired = CLOSED
  /\ normalizePhone(last.raw) = Key
  /\ Cardinality(RowsOf(messages, Key)) = 2
  /\ \E i \in RowsOf(last.before, Key) : RowStatus(last.before[i]) # CLOSED
  /\ RowsOf(messages, OtherKey) # {}

(* ------------------------------- C26 ----------------------------------- *)
(* C26 as stated: a webhook delivery that carries only a patient message (no
   assistant reply) never changes the stateAtEvent of the events that
   already existed for its key. *)
C26AsStated ==
  (Delivered /\ last.msg # NoText /\ last.reply = NoText) =>
    \A i \in 1..Len(last.before) : RowStatus(messages[i]) = RowStatus(last.before[i])

(* ------------------------------- C27 ----------------------------------- *)
\* when a key was last written: the latest stamp any of its rows carries
Recency(m, numero) ==
  CHOOSE t \in { m[i].updated_at : i \in RowsOf(m, numero) } :
    \A i \in RowsOf(m, numero) : m[i].updated_at <= t

\* the request in progress was accepted and has written to the table
Wrote == last.http = 200 /\ messages # last.before

(* C27: the conversation list is in descending order of recency (the time of
   the last write on the key), and right after a request has appended an
   event or overridden the state of key K, K is the first entry. *)
C27ListByRecency ==
  \A list \in conversations(messages) :
    /\ \A k \in 1..Len(list) : list[k].updatedAt = Recency(messages, list[k].numeroPaciente)
    /\ \A j, k \in 1..Len(list) : j < k => list[j].updatedAt >= list[k].updatedAt
    /\ (Wrote /\ normalizePhone(last.raw) \in KeysOf(messages))
         => list[1].numeroPaciente = normalizePhone(last.raw)

\* the conversation stored first is overridden after another one was written
\* and moves to the top
C27Witness ==
  /\ Wrote /\ last.op = "patchStatus"
  /\ normalizePhone(last.raw) = Key
  /\ Len(last.before) >= 2
  /\ last.before[1].numero_paciente = Key
  /\ \E list \in conversations(last.before) : list[1].numeroPaciente = OtherKey
  /\ \E list \in conversations(messages) :
       /\ Len(list) = 2
       /\ list[1].numeroPaciente = Key
       /\ list[1].updatedAt > list[2].updatedAt

(* ------------- behaviour: display names and the name edit -------------- *)
\* The routes that write the table, served one at a time for the key Key by
\* a store that accepts every write, with the name edit (lines 947-953) and
\* display names in the payloads.  created_at is kept up to the order of the
\* inserts, as in Spec.  `last` is the request in progress, as in Spec, with
\* `named`: the display name that was last written for Key ("" when none).
NamePayloads ==
  { [msg |-> <<"oi">>, reply |-> NoText, nome |-> ""],
    [msg |-> <<"oi">>, reply |-> NoText, nome |-> "Ana"],
    [msg |-> NoText, reply |-> <<"ola">>, nome |-> ""] }

\* `seen`: what the last read answered, when no other request was served since
NoRead == [route |-> "none", numero |-> << >>, result |-> << >>]

NamesIdle(named, seen) ==
  [op |-> "idle", nome |-> "", http |-> 0, before |-> << >>, named |-> named,
   seen |-> seen, earlier |-> NoRead]

NamesAnswer(op, nome, http, named) ==
  [op |-> op, nome |-> nome, http |-> http, before |-> messages, named |-> named,
   seen |-> NoRead, earlier |-> NoRead]

\* a key no request writes to
NewKey == <<"1", "2">>

ReadRequests ==
  { [route |-> "latest", numero |-> Key], [route |-> "latest", numero |-> NewKey],
    [route |-> "history", numero |-> Key], [route |-> "history", numero |-> NewKey],
    [route |-> "list", numero |-> << >>] }

\* what the three reads can answer with: getLastMessageInfo (lines 729-740),
\* GET /api/conversation/:numero/messages (header status and body) and
\* GET /api/conversations
readAnswers(m, q) ==
  IF q.route = "latest" THEN getLastMessageInfo(m, q.numero)
  ELSE IF q.route = "history"
  THEN { [status |-> st, out |-> out] :
           st \in historyStatus(m, q.numero), out \in conversationMessages(m, q.numero) }
  ELSE conversations(m)

\* faulty variant: the update is not filtered by the key
updateNameEveryKey(m, numero, nomePaciente) ==
  [i \in 1..Len(m) |-> [m[i] EXCEPT !.nome_paciente = nomePaciente]]

\* .update({ nome_paciente: nomePaciente }).eq('numero_paciente', numero)
updateName(m, numero, nomePaciente) ==
  [i \in 1..Len(m) |->
     IF m[i].numero_paciente = numero THEN [m[i] EXCEPT !.nome_paciente = nomePaciente]
     ELSE m[i]]

InitNames ==
  /\ messages = safeInsert(<< >>, NewRow("0", OtherKey, "", <<"oi">>, NoText, NoText,
                                        "Paciente", Status.ROBO))
  /\ last = NamesIdle("", NoRead)
  /\ now = 1
  /\ conns = [c \in Conn |-> Free]
  /\ HAS_STATUS_CONVERSA = TRUE

\* the handler's writes `ops`, carrying the display name `nome`, are accepted
NamesWrite(op, nome, ops) ==
  /\ Len(messages) + Inserts(ops) <= MaxRows
  /\ messages' = RunOps(ops, 1, messages, 0).messages
  /\ last' = NamesAnswer(op, nome, 200,
                         IF nome # "" /\ Inserts(ops) > 0 THEN nome ELSE last.named)

\* POST /api/webhook, lines 862-893
NamesWebhook ==
  /\ last.op = "idle"
  /\ \E p \in NamePayloads :
       \E lastInfo \in getLastMessageInfo(messages, Key) :
         NamesWrite("webhook", p.nome,
                    WebhookOps(Key, p.nome, p.msg, p.reply, Remetente(NoField, p.reply),
                               Seed(lastInfo)))

\* POST /api/instance/:id/messages without nomePaciente, delivered (lines 775-804)
NamesHumanSend ==
  /\ last.op = "idle"
  /\ NamesWrite("humanSend", "", HumanOps(Key, "", << "bom dia" >>))

\* PATCH /api/conversation/:numero/status, lines 937-944
NamesPatchStatus ==
  /\ last.op = "idle"
  /\ \E desired \in { Status.FINALIZADO, Status.ROBO } :
       NamesWrite("patchStatus", "", << MassOp(Key, desired) >>)

\* PATCH /api/conversation/:numero/name, lines 947-953
NamesPatchName ==
  /\ last.op = "idle"
  /\ \E nomePaciente \in { "", "Bia" } :
       IF nomePaciente = ""
       THEN /\ UNCHANGED messages
            /\ last' = NamesAnswer("patchName", nomePaciente, 400, last.named)
       ELSE /\ messages' = updateName(messages, Key, nomePaciente)
            /\ last' = NamesAnswer("patchName", nomePaciente, 200,
                                   IF RowsOf(messages, Key) # {} THEN nomePaciente
                                   ELSE last.named)

\* getLastMessageInfo, GET /api/conversation/:numero/messages and
\* GET /api/conversations: the answer is kept, the table is not written
NamesRead ==
  /\ last.op = "idle"
  /\ \E q \in ReadRequests :
       \E result \in readAnswers(messages, q) :
         last' = [NamesAnswer("read", "", 200, last.named) EXCEPT
                    !.seen = [route |-> q.route, numero |-> q.numero, result |-> result],
                    !.earlier = IF last.seen.route = q.route /\ last.seen.numero = q.numero
                                THEN last.seen ELSE NoRead]
  /\ UNCHANGED messages

NamesRespond ==
  /\ last.op # "idle"
  /\ last' = NamesIdle(last.named, last.seen)
  /\ UNCHANGED messages

NextNames ==
  \/ NamesWebhook /\ UNCHANGED <<now, conns, HAS_STATUS_CONVERSA>>
  \/ NamesHumanSend /\ UNCHANGED <<now, conns, HAS_STATUS_CONVERSA>>
  \/ NamesPatchStatus /\ UNCHANGED <<now, conns, HAS_STATUS_CONVERSA>>
  \/ NamesPatchName /\ UNCHANGED <<now, conns, HAS_STATUS_CONVERSA>>
  \/ NamesRead /\ UNCHANGED <<now, conns, HAS_STATUS_CONVERSA>>
  \/ NamesRespond /\ UNCHANGED <<now, conns, HAS_STATUS_CONVERSA>>

SpecNames == InitNames /\ [][NextNames]_vars

(* ------------------------------- C28 ----------------------------------- *)
(* C28 as stated: after a display name N has been written for a conversation
   (by the name edit or by an event that carries a name), the conversation
   list shows N for the key until a different name is written; a later
   delivery or human send without a display name does not clear it. *)
C28AsStated ==
  last.named # "" =>
    \A list \in conversations(messages) :
      \A k \in 1..Len(list) :
        list[k].numeroPaciente = Key => list[k].nomePaciente = last.named

(* ------------------------------- C29 ----------------------------------- *)
NameEdited == last.op = "patchName" /\ last.http = 200

(* C29: an accepted display-name edit of key K leaves every event of K with
   the new name and otherwise as it was, changes no field of an event of
   another key, adds and removes no event, and leaves the current state of
   every conversation as it was. *)
C29NameEditFrame ==
  NameEdited =>
    /\ Len(messages) = Len(last.before)
    /\ \A i \in 1..Len(last.before) :
         IF last.before[i].numero_paciente = Key
         THEN messages[i] = [last.before[i] EXCEPT !.nome_paciente = last.nome]
         ELSE messages[i] = last.before[i]
    /\ \A k \in { Key, OtherKey } :
         CurrentState(messages, k) = CurrentState(last.before, k)

C29Witness ==
  /\ NameEdited
  /\ \E i, j \in RowsOf(last.before, Key) :
       /\ last.before[i].nome_paciente = "Ana"
       /\ last.before[j].nome_paciente = ""
       /\ last.before[i].status_atendimento # last.before[j].status_atendimento
  /\ \A i \in RowsOf(messages, Key) : messages[i].nome_paciente = "Bia"
  /\ RowsOf(messages, OtherKey) # {}

(* ------------------------------- C30 ----------------------------------- *)
\* the fields of an event that are fixed when it is inserted
Inserted(r) ==
  << r.numero_paciente, r.remetente, r.mensagem_paciente, r.resposta_robo,
     r.resposta_atendente, r.created_at >>

EventsKept ==
  /\ Len(messages') >= Len(messages)
  /\ \A i \in 1..Len(messages) : Inserted(messages'[i]) = Inserted(messages[i])

(* C30: no step of a webhook delivery, a human send, an override, a name
   edit or a read removes an event, moves it to another key, or changes its
   sender, its payload or its created_at. *)
C30EventsKept == [][EventsKept]_vars

C30Witness ==
  /\ NameEdited
  /\ Len(messages) = MaxRows
  /\ \E i, j, k \in RowsOf(messages, Key) :
       /\ messages[i].remetente = "Paciente"
       /\ messages[j].remetente = "Atendente"
       /\ messages[k].remetente = "Robo"
  /\ \E i \in RowsOf(messages, Key) :
       messages[i].nome_paciente # last.before[i].nome_paciente

(* ------------------------------- C31 ----------------------------------- *)
(* C31: every stored event carries one of the four states, as the value it
   reads as and in status_atendimento, and a status override that asks for
   any other value is answered 400 with the table as it was. *)
C31StatesEnumerated ==
  /\ \A i \in 1..Len(messages) :
       /\ RowStatus(messages[i]) \in StatusValues
       /\ messages[i].status_atendimento \in StatusValues
  /\ (last.op = "patchStatus" /\ last.desired \notin StatusValues) =>
       /\ last.http = 400
       /\ messages = last.before

C31Witness ==
  /\ last.op = "patchStatus"
  /\ last.desired = "ARQUIVADO"
  /\ last.http = 400
  /\ Cardinality(RowsOf(messages, normalizePhone(last.raw))) >= 2
  /\ \E i \in 1..Len(messages) : messages[i].remetente = "Atendente"

(* ------------------------------- C32 ----------------------------------- *)
\* both deliveries were for the key `numero` and both have been answered
BothCompleted(numero) ==
  \A c \in Conn : conns[c].pc = "done" /\ normalizePhone(conns[c].raw) = numero

\* the delivery of connection c carried a hand-off reply that was stored
TransferDelivered(c) ==
  /\ IsTransfer(conns[c].reply)
  /\ conns[c].out = "received"
  /\ conns[c].written > 0

(* C32 as stated: when two deliveries for one key have both completed and
   one of them stored a hand-off reply, the conversation reads as
   AWAITING_HUMAN and no other assistant event is later than the hand-off
   (read here as: later than the hand-off reply itself, which the handler
   inserts right after its override). *)
C32AsStated ==
  \A numero \in { normalizePhone(raw) : raw \in ConcRawPhones } :
    (BothCompleted(numero) /\ \E c \in Conn : TransferDelivered(c)) =>
      /\ \A i \in LatestRows(messages, numero) : RowStatus(messages[i]) = Status.PENDENTE
      /\ \A i, j \in RowsOf(messages, numero) :
           (/\ messages[i].remetente = "Robo" /\ ~IsTransfer(messages[i].resposta_robo)
            /\ messages[j].remetente = "Robo" /\ IsTransfer(messages[j].resposta_robo))
           => messages[i].created_at <= messages[j].created_at

(* ------------------------------- C33 ----------------------------------- *)
ReadAnswered == last.op = "read"

(* C33: a read is answered 200 and leaves the table as it was; the history
   and the latest-state read of a key without events answer with no event and
   the state BOT_ACTIVE; a read that directly follows a read of the same
   route and key answers the same; and every event of a history is a stored
   event of the key shown with the conversation's state in status_conversa,
   the stored row being left as it was. *)
C33ReadsLeaveStore ==
  ReadAnswered =>
    LET q == last.seen
    IN /\ last.http = 200
       /\ messages = last.before
       /\ (q.route = "latest" /\ RowsOf(messages, q.numero) = {}) =>
            Seed(q.result) = BOT_ACTIVE
       /\ (q.route = "history" /\ RowsOf(messages, q.numero) = {}) =>
            q.result.out = << >> /\ q.result.status = BOT_ACTIVE
       /\ q.route = "history" =>
            /\ Len(q.result.out) = Cardinality(RowsOf(messages, q.numero))
            /\ \A k \in 1..Len(q.result.out) :
                 \E i \in RowsOf(last.before, q.numero) :
                   q.result.out[k] =
                     [last.before[i] EXCEPT !.status_conversa = q.result.status]
       /\ last.earlier.route # "none" => last.earlier.result = q.result

C33Witness ==
  /\ ReadAnswered
  /\ last.seen.route = "history"
  /\ last.earlier.route = "history"
  /\ \E k \in 1..Len(last.seen.result.out) :
       \E i \in RowsOf(messages, last.seen.numero) :
         /\ messages[i].created_at = last.seen.result.out[k].created_at
         /\ messages[i].status_conversa # last.seen.result.out[k].status_conversa

(* ------------------------------- C34 ----------------------------------- *)
\* a human send whose text trims to nothing, whose key has no digit, or whose
\* instance row is missing or has no token or no source number
RejectedBeforeDelivery ==
  /\ last.op \in { "humanSend", "messagesCompat" }
  /\ \/ trim(last.texto) = NoText
     \/ normalizePhone(last.raw) = << >>
     \/ ~last.inst.found \/ ~last.inst.token \/ ~last.inst.source_number

(* C34: a human send rejected before delivery does not call Gupshup, leaves
   the table as it was, and is answered 400 (text or key missing) or 500
   instance_not_ready. *)
C34RejectedSendWritesNothing ==
  RejectedBeforeDelivery =>
    /\ last.resp = NotCalled
    /\ messages = last.before
    /\ IF trim(last.texto) = NoText \/ normalizePhone(last.raw) = << >>
       THEN last.http = 400 /\ last.inst = NotAsked
       ELSE last.http = 500 /\ last.out = "instance_not_ready"

\* the instance has a token and no source number, for a conversation with events
C34Witness ==
  /\ RejectedBeforeDelivery
  /\ last.inst.found /\ last.inst.token /\ ~last.inst.source_number
  /\ last.http = 500
  /\ RowsOf(messages, normalizePhone(last.raw)) # {}
  /\ messages = last.before

(* ------------------------------- C35 ----------------------------------- *)
(* C35: as long as the server takes the column status_conversa to exist,
   every stored row has status_conversa equal to status_atendimento. *)
C35StatusFieldsAgree ==
  HAS_STATUS_CONVERSA =>
    \A i \in 1..Len(messages) : messages[i].status_conversa = messages[i].status_atendimento

\* an override has just rewritten a conversation that holds a patient's, the
\* robot's and an agent's row
C35Witness ==
  /\ last.op = "patchStatus" /\ last.http = 200
  /\ messages # last.before
  /\ \E i, j, k \in RowsOf(messages, normalizePhone(last.raw)) :
       /\ messages[i].remetente = "Paciente"
       /\ messages[j].remetente = "Robo"
       /\ messages[k].remetente = "Atendente"

(* ------------------------------- C36 ----------------------------------- *)
\* the writes of the delivery in `last` that stored a row
StoredInserts ==
  { i \in 1..Len(last.sent) :
      last.writes[i] # "mass" /\ last.answers[i] \in { "ok", "column" } }

\* every write of a delivery goes to the store once, or twice when the first
\* answer names status_conversa, and every insert that succeeds stores one row
TwoAttempts ==
  last.op = "webhook" =>
    /\ \A i \in 1..Len(last.sent) :
         /\ last.sent[i] \in 1..2
         /\ last.sent[i] = 2 <=> last.answers[i] \in { "column", "columnTwice" }
    /\ Len(messages) = Len(last.before) + Cardinality(StoredInserts)

\* the flag is never set back, and while it is false no stored row is given a
\* new status_conversa
FlagOnlyFalls ==
  /\ HAS_STATUS_CONVERSA' => HAS_STATUS_CONVERSA
  /\ ~HAS_STATUS_CONVERSA =>
       \A i \in 1..Len(messages) : messages'[i].status_conversa = messages[i].status_conversa

(* C36: HAS_STATUS_CONVERSA starts true and once false stays false; safeInsert
   sends its insert once, or twice when the first answer is a status_conversa
   column error, and stores one row when it succeeds; with the flag false a
   bulk override leaves status_conversa of the stored rows alone. *)
C36ColumnFallback ==
  /\ HAS_STATUS_CONVERSA = TRUE
  /\ []TwoAttempts
  /\ [][FlagOnlyFalls]_vars

\* with the flag already false, a delivery's insert was sent twice and its
\* bulk override changed status_atendimento of a row stored without
\* status_conversa
C36Witness ==
  /\ ~HAS_STATUS_CONVERSA
  /\ last.op = "webhook" /\ last.http = 200
  /\ \E i \in StoredInserts : last.sent[i] = 2
  /\ \E i \in 1..Len(last.sent) : last.writes[i] = "mass" /\ last.answers[i] = "ok"
  /\ \E j \in 1..Len(last.before) :
       /\ last.before[j].status_conversa = NoStatus
       /\ messages[j].status_conversa = NoStatus
       /\ messages[j].status_atendimento # last.before[j].status_atendimento

====
